---- MODULE Spec2Model ----
(***************************************************************************)
(* BATCAVE task planner: the reward calculation and the task lifecycle of  *)
(* server/storage.ts behind the REST handlers of server/routes.ts, with    *)
(* the zod schemas of shared/schema.ts.                                    *)
(*                                                                         *)
(* Hours are JavaScript Numbers in the code.  A Number is modelled as an   *)
(* IEEE-754 binary64 value m * 2^e with a 53 bit mantissa m, kept as a     *)
(* little-endian sequence of 15 bit limbs, so that parseFloat, `*` and     *)
(* Math.round round exactly where the engine rounds.  In the model an      *)
(* hours value is written in hundredths of an hour (410 is 4.1 hours).     *)
(***************************************************************************)
EXTENDS Integers, Sequences, FiniteSets, TLC

\* ------------------------------------------------------------------------
\* Natural numbers of any size: little-endian limbs, no leading zero limb.
\* ------------------------------------------------------------------------
Limb == 32768
LimbBits == 15

RECURSIVE Pow2(_)
Pow2(n) == IF n = 0 THEN 1 ELSE 2 * Pow2(n - 1)

RECURSIVE BigNorm(_)
BigNorm(s) ==
    IF s = <<>> THEN <<>>
    ELSE IF s[Len(s)] = 0 THEN BigNorm(SubSeq(s, 1, Len(s) - 1))
    ELSE s

RECURSIVE BigFromInt(_)
BigFromInt(n) ==
    IF n = 0 THEN <<>> ELSE <<n % Limb>> \o BigFromInt(n \div Limb)

RECURSIVE BigToInt(_)
BigToInt(s) ==
    IF s = <<>> THEN 0 ELSE s[1] + Limb * BigToInt(Tail(s))

\* s * c + carry, for a small c
RECURSIVE BigMulSmallC(_, _, _)
BigMulSmallC(s, c, carry) ==
    IF s = <<>> THEN BigFromInt(carry)
    ELSE LET v == s[1] * c + carry
         IN  <<v % Limb>> \o BigMulSmallC(Tail(s), c, v \div Limb)

BigMulSmall(s, c) == BigNorm(BigMulSmallC(s, c, 0))

RECURSIVE BigAddC(_, _, _)
BigAddC(a, b, carry) ==
    IF a = <<>> /\ b = <<>> THEN BigFromInt(carry)
    ELSE LET x == IF a = <<>> THEN 0 ELSE a[1]
             y == IF b = <<>> THEN 0 ELSE b[1]
             v == x + y + carry
         IN  <<v % Limb>> \o BigAddC(IF a = <<>> THEN <<>> ELSE Tail(a),
                                     IF b = <<>> THEN <<>> ELSE Tail(b),
                                     v \div Limb)

BigAdd(a, b) == BigNorm(BigAddC(a, b, 0))

\* a * b, schoolbook: a * b[1] + Limb * (a * Tail(b))
RECURSIVE BigMul(_, _)
BigMul(a, b) ==
    IF a = <<>> \/ b = <<>> THEN <<>>
    ELSE LET rest == BigMul(a, Tail(b))
         IN  BigAdd(BigMulSmall(a, b[1]),
                    IF rest = <<>> THEN <<>> ELSE <<0>> \o rest)

\* quotient and remainder of s by a small d, from the high limb down
RECURSIVE BigDivSmallR(_, _)
BigDivSmallR(s, d) ==
    IF s = <<>> THEN [q |-> <<>>, r |-> 0]
    ELSE LET hi == BigDivSmallR(Tail(s), d)
             v  == hi.r * Limb + s[1]
         IN  [q |-> <<v \div d>> \o hi.q, r |-> v % d]

BigDivSmall(s, d) ==
    LET qr == BigDivSmallR(s, d) IN [q |-> BigNorm(qr.q), r |-> qr.r]

RECURSIVE BitLenInt(_)
BitLenInt(n) == IF n = 0 THEN 0 ELSE 1 + BitLenInt(n \div 2)

BigBitLen(s) ==
    IF s = <<>> THEN 0 ELSE (Len(s) - 1) * LimbBits + BitLenInt(s[Len(s)])

RECURSIVE Zeros(_)
Zeros(n) == IF n = 0 THEN <<>> ELSE <<0>> \o Zeros(n - 1)

\* s * 2^n
BigShl(s, n) ==
    IF s = <<>> THEN <<>>
    ELSE BigMulSmall(Zeros(n \div LimbBits) \o s, Pow2(n % LimbBits))

\* floor(s / 2^n)
BigShr(s, n) ==
    LET drop == n \div LimbBits
    IN  IF drop >= Len(s) THEN <<>>
        ELSE BigDivSmall(SubSeq(s, drop + 1, Len(s)), Pow2(n % LimbBits)).q

\* bit i (from 0) of s
BigBit(s, i) ==
    LET l == i \div LimbBits + 1
    IN  IF l > Len(s) THEN 0 ELSE (s[l] \div Pow2(i % LimbBits)) % 2

\* s mod 2^n # 0
BigLowNonZero(s, n) ==
    \/ \E l \in 1..Len(s) : l <= n \div LimbBits /\ s[l] # 0
    \/ /\ n \div LimbBits + 1 <= Len(s)
       /\ s[n \div LimbBits + 1] % Pow2(n % LimbBits) # 0

BigIsOdd(s) == s # <<>> /\ s[1] % 2 = 1

\* ------------------------------------------------------------------------
\* JavaScript Number: NaN, zero, or m * 2^e with 2^52 <= m < 2^53.
\* ------------------------------------------------------------------------
MantBits == 53

NaN == [nan |-> TRUE, m |-> <<>>, e |-> 0]
Zero == [nan |-> FALSE, m |-> <<>>, e |-> 0]

Number(m, e) == [nan |-> FALSE, m |-> m, e |-> e]

\* a mantissa that rounding carried to 54 bits is halved
Renormalize(q, e) ==
    IF BigBitLen(q) > MantBits THEN Number(BigShr(q, 1), e + 1) ELSE Number(q, e)

\* round to nearest, ties to even: rb is the first bit dropped, st says a
\* later one is set
RoundQuotient(q, rb, st, e) ==
    Renormalize(IF rb /\ (st \/ BigIsOdd(q)) THEN BigAdd(q, <<1>>) ELSE q, e)

RoundBits(N, L, e, sticky) ==
    IF L = 0 THEN Zero
    ELSE IF L <= MantBits THEN Number(BigShl(N, MantBits - L), e - (MantBits - L))
    ELSE RoundQuotient(BigShr(N, L - MantBits),
                       BigBit(N, L - MantBits - 1) = 1,
                       sticky \/ BigLowNonZero(N, L - MantBits - 1),
                       e + (L - MantBits))

\* the Number nearest to (N + fraction) * 2^e; sticky says the fraction below
\* N's last bit is not zero
RoundToNumber(N, e, sticky) == RoundBits(N, BigBitLen(N), e, sticky)

\* the Number denoted by a decimal text with two fraction digits, c/100:
\* the value of parseFloat("4.1") and of the literal 0.8 in the source
ScaleBits == 60

RoundDivided(qr) == RoundToNumber(qr.q, 0 - ScaleBits, qr.r # 0)

DecimalToNumber(c) ==
    IF c = 0 THEN Zero
    ELSE RoundDivided(BigDivSmall(BigShl(BigFromInt(c), ScaleBits), 100))

\* x * y on Numbers
NumMul(x, y) ==
    IF x.nan \/ y.nan THEN NaN
    ELSE IF x.m = <<>> \/ y.m = <<>> THEN Zero
    ELSE RoundToNumber(BigMul(x.m, y.m), x.e + y.e, FALSE)

\* Math.round(x), x >= 0: floor(x + 1/2), exactly; NaN stays NaN
MathRound(x) ==
    IF x.nan THEN [nan |-> TRUE, n |-> 0]
    ELSE IF x.m = <<>> THEN [nan |-> FALSE, n |-> 0]
    ELSE IF x.e >= 0 THEN [nan |-> FALSE, n |-> BigToInt(BigShl(x.m, x.e))]
    ELSE [nan |-> FALSE,
          n |-> BigToInt(BigShr(x.m, 0 - x.e)) + BigBit(x.m, (0 - x.e) - 1)]

\* ------------------------------------------------------------------------
\* Reward calculation (identical in MemStorage and DatabaseStorage)
\* ------------------------------------------------------------------------
\* property names every object literal inherits from Object.prototype
ObjectPrototypeKeys ==
    {"constructor", "toString", "toLocaleString", "valueOf", "hasOwnProperty",
     "isPrototypeOf", "propertyIsEnumerable", "__proto__"}

\* table[key] || fallback: an own entry gives its Number, an inherited
\* property is a truthy function or object, which `*` turns into NaN, and
\* any other key is undefined and gives the fallback
LookupOr(table, key, fallback) ==
    IF key \in DOMAIN table THEN table[key]
    ELSE IF key \in ObjectPrototypeKeys THEN NaN
    ELSE fallback

\* the Number literals of the two tables and their fallbacks, by the
\* hundredths they denote
Literal ==
    [c \in {1000, 1500, 2500, 4000, 100, 250, 80, 120, 60} |-> DecimalToNumber(c)]

basePriorityMultipliers ==
    [low |-> Literal[1000], medium |-> Literal[1500], high |-> Literal[2500],
     urgent |-> Literal[4000]]

domainMultipliers ==
    [academic |-> Literal[100], fitness |-> Literal[250], creative |-> Literal[80],
     social |-> Literal[120], maintenance |-> Literal[60]]

Fifteen == Literal[1500]
One == Literal[100]
Ten == Literal[1000]

calculateXPReward(priority, hours) ==
    LET baseXP == LookupOr(basePriorityMultipliers, priority, Fifteen)
    IN  MathRound(NumMul(baseXP, hours))

calculateEUReward(domain, hours) ==
    LET multiplier == LookupOr(domainMultipliers, domain, One)
    IN  MathRound(NumMul(NumMul(hours, multiplier), Ten))

\* ------------------------------------------------------------------------
\* JavaScript values
\* ------------------------------------------------------------------------
\* a nullable value: <<>> is null, <<v>> is v
Null == <<>>
Some(v) == <<v>>

\* {...a, ...b}
Spread(a, b) ==
    [k \in DOMAIN a \cup DOMAIN b |-> IF k \in DOMAIN b THEN b[k] ELSE a[k]]

\* a zod object schema keeps the keys it declares and drops the others
Strip(o, keys) == [k \in DOMAIN o \cap keys |-> o[k]]

\* a decimal text: c hundredths written with dp fraction digits
\* (300, 0) is "3", (300, 1) is "3.0", (410, 1) is "4.1"
NumberToString(c) ==
    [c |-> c, dp |-> IF c % 100 = 0 THEN 0 ELSE IF c % 10 = 0 THEN 1 ELSE 2]

parseFloat(text) == DecimalToNumber(text.c)

\* a numeric(4,1) column rounds to one fraction digit and prints it
NumericColumn(text) == [c |-> ((text.c + 5) \div 10) * 10, dp |-> 1]

\* new Date(text): the instant a date text denotes, Invalid Date for others
DateTexts == [d20250601 |-> 20250601, d20250702 |-> 20250702]

NewDate(text) ==
    IF text \in DOMAIN DateTexts THEN [valid |-> TRUE, t |-> DateTexts[text]]
    ELSE [valid |-> FALSE, t |-> 0]

\* ------------------------------------------------------------------------
\* shared/schema.ts: the tasks table and its zod schemas
\* ------------------------------------------------------------------------
tasksColumns ==
    {"id", "userId", "title", "description", "domain", "priority",
     "estimatedHours", "actualHours", "xpReward", "euReward", "isCompleted",
     "completedAt", "dueDate", "createdAt", "updatedAt"}

insertTaskSchema ==
    tasksColumns \ {"id", "xpReward", "euReward", "isCompleted", "completedAt",
                    "createdAt", "updatedAt"}

updateTaskSchemaWithRewards ==
    tasksColumns \ {"id", "userId", "createdAt", "updatedAt"}

updateTaskSchema ==
    tasksColumns \ {"id", "userId", "xpReward", "euReward", "createdAt",
                    "updatedAt"}

clientTaskSchema == insertTaskSchema \ {"userId"}

clientUpdateTaskSchema == updateTaskSchema \ {"completedAt"}

\* z.number().min(lo).max(hi).multipleOf(step), in hundredths
NumberInRange(c, lo, hi, step) == c >= lo /\ c <= hi /\ c % step = 0

\* z.date(): a Date that is not Invalid Date
DateOk(o, k) == k \in DOMAIN o => (o[k] = Null \/ o[k][1].valid)

\* schema.parse(o): the stripped object, or a ZodError
insertTaskSchemaParse(o) ==
    IF {"userId", "title", "domain"} \subseteq DOMAIN o /\ DateOk(o, "dueDate")
    THEN [ok |-> TRUE, data |-> Strip(o, insertTaskSchema)]
    ELSE [ok |-> FALSE, data |-> <<>>]

updateTaskSchemaParse(o) ==
    IF DateOk(o, "dueDate") /\ DateOk(o, "completedAt")
    THEN [ok |-> TRUE, data |-> Strip(o, updateTaskSchema)]
    ELSE [ok |-> FALSE, data |-> <<>>]

clientTaskSchemaParse(o) ==
    IF /\ {"title", "domain", "estimatedHours"} \subseteq DOMAIN o
       /\ NumberInRange(o.estimatedHours, 50, 2400, 50)
    THEN [ok |-> TRUE, data |-> Strip(o, clientTaskSchema)]
    ELSE [ok |-> FALSE, data |-> <<>>]

clientUpdateTaskSchemaParse(o) ==
    IF /\ "actualHours" \in DOMAIN o => NumberInRange(o.actualHours, 10, 10000, 10)
       /\ "estimatedHours" \in DOMAIN o => NumberInRange(o.estimatedHours, 50, 2400, 50)
    THEN [ok |-> TRUE, data |-> Strip(o, clientUpdateTaskSchema)]
    ELSE [ok |-> FALSE, data |-> <<>>]

\* ------------------------------------------------------------------------
\* server/storage.ts: DatabaseStorage, the store behind `storage`
\* A table is a function from the ids of its rows to the rows.
\* ------------------------------------------------------------------------
\* what the tasks table makes of the values written to its columns
TaskColumnValues(o) ==
    [k \in DOMAIN o |->
        IF k = "estimatedHours" THEN NumericColumn(o[k])
        ELSE IF k = "actualHours" /\ o[k] # Null THEN Some(NumericColumn(o[k][1]))
        ELSE IF k \in {"dueDate", "completedAt"} /\ o[k] # Null THEN Some(o[k][1].t)
        ELSE o[k]]

TaskRowDefaultsLow(id, now) ==
    [id |-> id, description |-> Null, priority |-> "low",
     estimatedHours |-> [c |-> 50, dp |-> 1], actualHours |-> Null,
     xpReward |-> 0, euReward |-> 0, isCompleted |-> FALSE,
     completedAt |-> Null, dueDate |-> Null, createdAt |-> now,
     updatedAt |-> now]

\* the column defaults of a new row
TaskRowDefaults(id, now) ==
    [id |-> id, description |-> Null, priority |-> "medium",
     estimatedHours |-> [c |-> 100, dp |-> 1], actualHours |-> Null,
     xpReward |-> 0, euReward |-> 0, isCompleted |-> FALSE,
     completedAt |-> Null, dueDate |-> Null, createdAt |-> now,
     updatedAt |-> now]

DbGetTask(tbl, id) == IF id \in DOMAIN tbl THEN Some(tbl[id]) ELSE Null

DbCreateTask(tbl, insertTask, id, now) ==
    LET task == Spread(TaskRowDefaults(id, now), TaskColumnValues(insertTask))
    IN  [tbl |-> Spread(tbl, [i \in {id} |-> task]), row |-> task]

\* updateData.isCompleted && !existingTask.isCompleted
CompletingAnyUpdate(existingTask, updateData) == ~existingTask.isCompleted

CompletingAgain(existingTask, updateData) ==
    "isCompleted" \in DOMAIN updateData /\ updateData.isCompleted

Completing(existingTask, updateData) ==
    /\ "isCompleted" \in DOMAIN updateData
    /\ updateData.isCompleted
    /\ ~existingTask.isCompleted

\* the rewards of a completion with the given hours
Rewards(existingTask, actualHours, hoursAsNumber) ==
    [xpReward |-> calculateXPReward(existingTask.priority, hoursAsNumber),
     euReward |-> calculateEUReward(existingTask.domain, hoursAsNumber),
     actualHours |-> actualHours]

HoursOfNewEstimate(existingTask, updateData) ==
    IF "estimatedHours" \in DOMAIN updateData
    THEN updateData.estimatedHours
    ELSE existingTask.estimatedHours

\* updateData.actualHours || existingTask.estimatedHours
HoursOf(existingTask, updateData) ==
    IF "actualHours" \in DOMAIN updateData /\ updateData.actualHours # Null
    THEN updateData.actualHours[1]
    ELSE existingTask.estimatedHours

TaskRewards(existingTask, actualHours) ==
    Rewards(existingTask, actualHours, parseFloat(actualHours))

\* calculatedRewards, or the failure of the statement: an integer column
\* refuses NaN
CalculatedRewards(rw, now) ==
    [threw |-> rw.xpReward.nan \/ rw.euReward.nan,
     set |-> [xpReward |-> rw.xpReward.n, euReward |-> rw.euReward.n,
              actualHours |-> Some(rw.actualHours),
              completedAt |-> Some([valid |-> TRUE, t |-> now])]]

\* db.update(tasks).set(finalUpdateData).where(eq(tasks.id, id)).returning()
SetTask(tbl, existingTask, updateData, calculated, now) ==
    LET finalUpdateData ==
            Spread(Spread(updateData, calculated.set), [updatedAt |-> now])
        task == Spread(existingTask, TaskColumnValues(finalUpdateData))
    IN  IF calculated.threw
        THEN [tbl |-> tbl, row |-> Null, threw |-> TRUE]
        ELSE [tbl |-> Spread(tbl, [i \in {existingTask.id} |-> task]),
              row |-> Some(task), threw |-> FALSE]

DbUpdateTaskFromPatch(tbl, id, updateData, now) ==
    IF DbGetTask(tbl, id) = Null THEN [tbl |-> tbl, row |-> Null, threw |-> FALSE]
    ELSE SetTask(tbl, tbl[id], updateData,
                 IF Completing(tbl[id], updateData)
                 THEN CalculatedRewards(
                          TaskRewards(Spread(tbl[id], updateData),
                                      HoursOf(tbl[id], updateData)), now)
                 ELSE [threw |-> FALSE, set |-> <<>>],
                 now)

DbUpdateTask(tbl, id, updateData, now) ==
    IF DbGetTask(tbl, id) = Null THEN [tbl |-> tbl, row |-> Null, threw |-> FALSE]
    ELSE SetTask(tbl, tbl[id], updateData,
                 IF Completing(tbl[id], updateData)
                 THEN CalculatedRewards(
                          TaskRewards(tbl[id], HoursOf(tbl[id], updateData)), now)
                 ELSE [threw |-> FALSE, set |-> <<>>],
                 now)

\* updateTask in its steps.  Up to the statement: existingTask is read and
\* finalUpdateData is made from it
FinalUpdateData(updateData, calculated, now) ==
    [found |-> TRUE, threw |-> calculated.threw,
     set |-> Spread(Spread(updateData, calculated.set), [updatedAt |-> now])]

DbUpdateTaskRead(tbl, id, updateData, now) ==
    IF DbGetTask(tbl, id) = Null
    THEN [found |-> FALSE, threw |-> FALSE, set |-> <<>>]
    ELSE FinalUpdateData(updateData,
             IF Completing(tbl[id], updateData)
             THEN CalculatedRewards(
                      TaskRewards(tbl[id], HoursOf(tbl[id], updateData)), now)
             ELSE [threw |-> FALSE, set |-> <<>>],
             now)

DbUpdateTaskWriteOnce(tbl, id, final) ==
    IF final.threw THEN [tbl |-> tbl, row |-> Null, threw |-> TRUE]
    ELSE IF ~final.found \/ id \notin DOMAIN tbl
    THEN [tbl |-> tbl, row |-> Null, threw |-> FALSE]
    ELSE IF tbl[id].isCompleted /\ "xpReward" \in DOMAIN final.set
    THEN [tbl |-> tbl, row |-> Some(tbl[id]), threw |-> FALSE]
    ELSE [tbl |-> Spread(tbl, [i \in {id} |->
                                 Spread(tbl[id], TaskColumnValues(final.set))]),
          row |-> Some(Spread(tbl[id], TaskColumnValues(final.set))),
          threw |-> FALSE]

\* the statement: UPDATE tasks SET finalUpdateData WHERE id = id RETURNING *,
\* on the table as it is when the statement runs
DbUpdateTaskWrite(tbl, id, final) ==
    IF final.threw THEN [tbl |-> tbl, row |-> Null, threw |-> TRUE]
    ELSE IF ~final.found \/ id \notin DOMAIN tbl
    THEN [tbl |-> tbl, row |-> Null, threw |-> FALSE]
    ELSE [tbl |-> Spread(tbl, [i \in {id} |->
                                 Spread(tbl[id], TaskColumnValues(final.set))]),
          row |-> Some(Spread(tbl[id], TaskColumnValues(final.set))),
          threw |-> FALSE]

DbDeleteTask(tbl, id) ==
    [tbl |-> [i \in DOMAIN tbl \ {id} |-> tbl[i]], deleted |-> id \in DOMAIN tbl]

\* ------------------------------------------------------------------------
\* server/storage.ts: MemStorage, tasks kept in a Map
\* ------------------------------------------------------------------------
\* o[k] ?? fallback, for a key whose value may be null or undefined
Coalesce(o, k, fallback) ==
    IF k \in DOMAIN o /\ o[k] # Null THEN o[k] ELSE fallback

\* o[k] ?? fallback, for a key whose type has no null
OrDefault(o, k, fallback) == IF k \in DOMAIN o THEN o[k] ELSE fallback

MemGetTask(map, id) == IF id \in DOMAIN map THEN Some(map[id]) ELSE Null

MemCreateTask(map, insertTask, id, now) ==
    LET task ==
            Spread(insertTask,
                   [description |-> Coalesce(insertTask, "description", Null),
                    priority |-> OrDefault(insertTask, "priority", "medium"),
                    estimatedHours |->
                        OrDefault(insertTask, "estimatedHours", [c |-> 100, dp |-> 1]),
                    actualHours |-> Null,
                    dueDate |-> Coalesce(insertTask, "dueDate", Null),
                    id |-> id, xpReward |-> 0, euReward |-> 0,
                    isCompleted |-> FALSE, completedAt |-> Null,
                    createdAt |-> now, updatedAt |-> now])
    IN  [map |-> Spread(map, [i \in {id} |-> task]), row |-> task]

\* the number NaN where a row of the Map holds it in place of a reward
NotANumber == 0 - 1

\* calculatedRewards of MemStorage.updateTask: no completedAt among them
MemCalculatedRewards(rw) ==
    [xpReward |-> IF rw.xpReward.nan THEN NotANumber ELSE rw.xpReward.n,
     euReward |-> IF rw.euReward.nan THEN NotANumber ELSE rw.euReward.n,
     actualHours |-> Some(rw.actualHours)]

NotStamped(task, now) == task

\* { ...task, updatedAt: new Date() }
Stamped(task, now) == Spread(task, [updatedAt |-> now])

\* this.tasks.set(id, updatedTask); return updatedTask
MemSetTask(map, id, updatedTask) ==
    [map |-> Spread(map, [i \in {id} |-> updatedTask]), row |-> Some(updatedTask)]

MemUpdateTask(map, id, updateData, now) ==
    IF MemGetTask(map, id) = Null THEN [map |-> map, row |-> Null]
    ELSE MemSetTask(map, id,
             Stamped(Spread(Spread(map[id], updateData),
                            IF Completing(map[id], updateData)
                            THEN MemCalculatedRewards(
                                     TaskRewards(map[id], HoursOf(map[id], updateData)))
                            ELSE <<>>),
                     now))

MemDeleteTaskKeeping(map, id) == [map |-> map, deleted |-> id \in DOMAIN map]

\* this.tasks.delete(id)
MemDeleteTask(map, id) ==
    [map |-> [i \in DOMAIN map \ {id} |-> map[i]], deleted |-> id \in DOMAIN map]

\* ------------------------------------------------------------------------
\* server/routes.ts: the task handlers.  A handler is a function of the
\* table, the session's user, the request and the time; it gives the table
\* it leaves and the response it sends.
\* ------------------------------------------------------------------------
NoSession == ""

Response(status, error, row) == [status |-> status, error |-> error, row |-> row]

\* !existing || existing.userId !== userId
NotStored(existing, userId) == existing = Null

NotOwned(existing, userId) == existing = Null \/ existing[1].userId # userId

\* the keys whose value is undefined are deleted: they are never put in
PostTask(tbl, userId, body, id, now) ==
    IF userId = NoSession THEN [tbl |-> tbl, res |-> Response(401, "Unauthorized", Null)]
    ELSE
    LET validated == clientTaskSchemaParse(body)
        validatedData == validated.data
        taskData ==
            Spread(validatedData,
                   [userId |-> userId,
                    estimatedHours |-> NumberToString(validatedData.estimatedHours),
                    dueDate |-> IF "dueDate" \in DOMAIN validatedData
                                   /\ validatedData.dueDate # ""
                                THEN Some(NewDate(validatedData.dueDate))
                                ELSE Null])
        parsed == insertTaskSchemaParse(taskData)
        created == DbCreateTask(tbl, parsed.data, id, now)
    IN  IF ~validated.ok \/ ~parsed.ok
        THEN [tbl |-> tbl, res |-> Response(400, "Invalid task data", Null)]
        ELSE [tbl |-> created.tbl, res |-> Response(201, "", Some(created.row))]

\* the un-complete guard
NoUncompleteAttempt(validatedUpdate, existingTask) == FALSE

UncompleteAttempt(validatedUpdate, existingTask) ==
    /\ "isCompleted" \in DOMAIN validatedUpdate
    /\ validatedUpdate.isCompleted = FALSE
    /\ existingTask.isCompleted

\* what the handler answers once storage.updateTask has returned or thrown
PatchTaskResponse(tbl, updated) ==
    IF updated.threw
    THEN [tbl |-> tbl, res |-> Response(500, "Failed to update task", Null)]
    ELSE IF updated.row = Null
    THEN [tbl |-> tbl, res |-> Response(404, "Task not found", Null)]
    ELSE [tbl |-> updated.tbl, res |-> Response(200, "", updated.row)]

\* routes 84-95: the update in server format
ConvertUpdate(validatedUpdate, now) ==
    LET has(k) == k \in DOMAIN validatedUpdate
        \* the four converted keys; a key whose conversion is undefined is
        \* deleted from the object
        converted ==
            Spread(Spread(Spread(
                IF has("estimatedHours")
                THEN [estimatedHours |-> NumberToString(validatedUpdate.estimatedHours)]
                ELSE <<>>,
                IF has("actualHours")
                THEN [actualHours |-> Some(NumberToString(validatedUpdate.actualHours))]
                ELSE <<>>),
                IF has("dueDate") /\ validatedUpdate.dueDate # ""
                THEN [dueDate |-> Some(NewDate(validatedUpdate.dueDate))]
                ELSE <<>>),
                IF has("isCompleted") /\ validatedUpdate.isCompleted
                THEN [completedAt |-> Some([valid |-> TRUE, t |-> now])]
                ELSE <<>>)
    IN  Spread(Strip(validatedUpdate,
                     DOMAIN validatedUpdate \
                         {"estimatedHours", "actualHours", "dueDate", "completedAt"}),
               converted)

PatchTask(tbl, userId, taskId, body, now) ==
    IF userId = NoSession THEN [tbl |-> tbl, res |-> Response(401, "Unauthorized", Null)]
    ELSE
    LET existing == DbGetTask(tbl, taskId)
        validated == clientUpdateTaskSchemaParse(body)
        validatedUpdate == validated.data
        updateData == ConvertUpdate(validatedUpdate, now)
        parsed == updateTaskSchemaParse(updateData)
    IN  IF NotOwned(existing, userId)
        THEN [tbl |-> tbl, res |-> Response(404, "Task not found", Null)]
        ELSE IF ~validated.ok
        THEN [tbl |-> tbl, res |-> Response(400, "Invalid update data", Null)]
        ELSE IF UncompleteAttempt(validatedUpdate, existing[1])
        THEN [tbl |-> tbl, res |-> Response(400, "Cannot un-complete a task", Null)]
        ELSE IF ~parsed.ok
        THEN [tbl |-> tbl, res |-> Response(400, "Invalid update data", Null)]
        ELSE PatchTaskResponse(tbl, DbUpdateTask(tbl, taskId, parsed.data, now))

\* the handler up to its call of storage.updateTask: the response it sends
\* at once, or the update it calls the store with
PatchTaskBegin(tbl, userId, taskId, body, now) ==
    IF userId = NoSession
    THEN [calls |-> FALSE, updateData |-> <<>>, res |-> Response(401, "Unauthorized", Null)]
    ELSE
    LET existing == DbGetTask(tbl, taskId)
        validated == clientUpdateTaskSchemaParse(body)
        validatedUpdate == validated.data
        updateData == ConvertUpdate(validatedUpdate, now)
        parsed == updateTaskSchemaParse(updateData)
        sends(status, error) ==
            [calls |-> FALSE, updateData |-> <<>>, res |-> Response(status, error, Null)]
    IN  IF NotOwned(existing, userId) THEN sends(404, "Task not found")
        ELSE IF ~validated.ok THEN sends(400, "Invalid update data")
        ELSE IF UncompleteAttempt(validatedUpdate, existing[1])
        THEN sends(400, "Cannot un-complete a task")
        ELSE IF ~parsed.ok THEN sends(400, "Invalid update data")
        ELSE [calls |-> TRUE, updateData |-> parsed.data, res |-> Response(0, "", Null)]

DeleteTask(tbl, userId, taskId) ==
    IF userId = NoSession THEN [tbl |-> tbl, res |-> Response(401, "Unauthorized", Null)]
    ELSE
    LET existing == DbGetTask(tbl, taskId)
        deleted == DbDeleteTask(tbl, taskId)
    IN  IF NotOwned(existing, userId)
        THEN [tbl |-> tbl, res |-> Response(404, "Task not found", Null)]
        ELSE IF ~deleted.deleted
        THEN [tbl |-> tbl, res |-> Response(404, "Task not found", Null)]
        ELSE [tbl |-> deleted.tbl, res |-> Response(204, "", Null)]

\* ------------------------------------------------------------------------
\* shared/schema.ts: the goals, objectives and visions tables and their zod
\* schemas.  The three are handled by the same code up to their names, so
\* each is described by a record and the code is written once over it.
\* ------------------------------------------------------------------------
goalsColumns ==
    {"id", "userId", "title", "description", "category", "priority",
     "targetValue", "currentValue", "unit", "deadline", "month", "year",
     "tasks", "isCompleted", "completedAt", "createdAt", "updatedAt"}

objectivesColumns ==
    {"id", "userId", "title", "description", "category", "priority",
     "targetMetric", "currentProgress", "unit", "deadline", "quarter", "year",
     "milestones", "linkedGoals", "isCompleted", "completedAt", "createdAt",
     "updatedAt"}

visionsColumns ==
    {"id", "userId", "title", "description", "category", "priority", "year",
     "quarterlyBreakdown", "metrics", "linkedObjectives", "isCompleted",
     "completedAt", "createdAt", "updatedAt"}

insertGoalSchema ==
    goalsColumns \ {"id", "isCompleted", "completedAt", "createdAt", "updatedAt"}

updateGoalSchemaWithoutCompletion ==
    goalsColumns \ {"id", "userId", "isCompleted", "createdAt", "updatedAt"}

updateGoalSchema == goalsColumns \ {"id", "userId", "createdAt", "updatedAt"}
clientGoalSchema == insertGoalSchema \ {"userId"}
clientUpdateGoalSchema == updateGoalSchema \ {"completedAt"}

insertObjectiveSchema ==
    objectivesColumns \ {"id", "isCompleted", "completedAt", "createdAt", "updatedAt"}

updateObjectiveSchemaWithUser == objectivesColumns \ {"id", "createdAt", "updatedAt"}

updateObjectiveSchema == objectivesColumns \ {"id", "userId", "createdAt", "updatedAt"}
clientObjectiveSchema == insertObjectiveSchema \ {"userId"}
clientUpdateObjectiveSchema == updateObjectiveSchema \ {"completedAt"}

insertVisionSchema ==
    visionsColumns \ {"id", "isCompleted", "completedAt", "createdAt", "updatedAt"}
updateVisionSchema == visionsColumns \ {"id", "userId", "createdAt", "updatedAt"}
clientVisionSchema == insertVisionSchema \ {"userId"}
clientUpdateVisionSchema == updateVisionSchema \ {"completedAt"}

\* text(...).array().default([])
EmptyArray == [items |-> <<>>]

\* notNull: the columns an insert must give (not null, no default); numbers:
\* the numeric(10,2) columns, which the client schemas take as numbers >= 0;
\* deadline: whether the routes convert a deadline text to a Date
Goal ==
    [name |-> "Goal", notFound |-> "Goal not found", invalid |-> "Invalid goal data",
     insert |-> insertGoalSchema, update |-> updateGoalSchema,
     client |-> clientGoalSchema, clientUpdate |-> clientUpdateGoalSchema,
     notNull |-> {"userId", "title", "category", "targetValue", "unit",
                  "deadline", "month", "year"},
     numbers |-> {"targetValue", "currentValue"},
     deadline |-> TRUE,
     defaults |-> [description |-> Null, priority |-> "medium",
                   currentValue |-> [c |-> 0, dp |-> 2], tasks |-> EmptyArray,
                   isCompleted |-> FALSE, completedAt |-> Null]]

Objective ==
    [name |-> "Objective", notFound |-> "Objective not found",
     invalid |-> "Invalid objective data",
     insert |-> insertObjectiveSchema, update |-> updateObjectiveSchema,
     client |-> clientObjectiveSchema, clientUpdate |-> clientUpdateObjectiveSchema,
     notNull |-> {"userId", "title", "description", "category", "targetMetric",
                  "unit", "deadline", "quarter", "year"},
     numbers |-> {"targetMetric", "currentProgress"},
     deadline |-> TRUE,
     defaults |-> [priority |-> "medium", currentProgress |-> [c |-> 0, dp |-> 2],
                   milestones |-> EmptyArray, linkedGoals |-> EmptyArray,
                   isCompleted |-> FALSE, completedAt |-> Null]]

Vision ==
    [name |-> "Vision", notFound |-> "Vision not found",
     invalid |-> "Invalid vision data",
     insert |-> insertVisionSchema, update |-> updateVisionSchema,
     client |-> clientVisionSchema, clientUpdate |-> clientUpdateVisionSchema,
     notNull |-> {"userId", "title", "description", "category", "year",
                  "quarterlyBreakdown"},
     numbers |-> {},
     deadline |-> FALSE,
     defaults |-> [priority |-> "growth", metrics |-> EmptyArray,
                   linkedObjectives |-> EmptyArray, isCompleted |-> FALSE,
                   completedAt |-> Null]]

\* z.date() on a column that is not null: a Date that is not Invalid Date
DateGiven(o, k) == k \in DOMAIN o => (o[k] # Null /\ o[k][1].valid)

\* insert<Kind>Schema.parse
PlanInsertParse(K, o) ==
    IF K.notNull \subseteq DOMAIN o /\ DateGiven(o, "deadline")
    THEN [ok |-> TRUE, data |-> Strip(o, K.insert)]
    ELSE [ok |-> FALSE, data |-> <<>>]

\* update<Kind>Schema.parse
PlanUpdateParse(K, o) ==
    IF DateGiven(o, "deadline") /\ DateOk(o, "completedAt")
    THEN [ok |-> TRUE, data |-> Strip(o, K.update)]
    ELSE [ok |-> FALSE, data |-> <<>>]

\* client<Kind>Schema.parse: the extension makes both numbers required
PlanClientParse(K, o) ==
    IF /\ ((K.notNull \ {"userId"}) \cup K.numbers) \subseteq DOMAIN o
       /\ \A k \in K.numbers : o[k] >= 0
    THEN [ok |-> TRUE, data |-> Strip(o, K.client)]
    ELSE [ok |-> FALSE, data |-> <<>>]

\* clientUpdate<Kind>Schema.parse
PlanClientUpdateParse(K, o) ==
    IF \A k \in K.numbers \cap DOMAIN o : o[k] >= 0
    THEN [ok |-> TRUE, data |-> Strip(o, K.clientUpdate)]
    ELSE [ok |-> FALSE, data |-> <<>>]

\* ------------------------------------------------------------------------
\* DatabaseStorage: goals, objectives, visions
\* ------------------------------------------------------------------------
\* a numeric(10,2) column prints two fraction digits, a timestamp column
\* holds the instant
PlanColumnValues(K, o) ==
    [k \in DOMAIN o |->
        IF k \in K.numbers THEN [c |-> o[k].c, dp |-> 2]
        ELSE IF k = "deadline" THEN o[k][1].t
        ELSE IF k = "completedAt" /\ o[k] # Null THEN Some(o[k][1].t)
        ELSE o[k]]

DbGetPlan(tbl, id) == IF id \in DOMAIN tbl THEN Some(tbl[id]) ELSE Null

DbCreatePlan(K, tbl, insertPlan, id, now) ==
    LET row == Spread(Spread(K.defaults,
                             [id |-> id, createdAt |-> now, updatedAt |-> now]),
                      PlanColumnValues(K, insertPlan))
    IN  [tbl |-> Spread(tbl, [i \in {id} |-> row]), row |-> row]

\* .set({ ...updateData, updatedAt: new Date() }).where(eq(id)).returning()
DbUpdatePlan(K, tbl, id, updateData, now) ==
    IF id \notin DOMAIN tbl THEN [tbl |-> tbl, row |-> Null]
    ELSE LET row == Spread(tbl[id],
                           PlanColumnValues(K, Spread(updateData, [updatedAt |-> now])))
         IN  [tbl |-> Spread(tbl, [i \in {id} |-> row]), row |-> Some(row)]

DbDeletePlan(tbl, id) ==
    [tbl |-> [i \in DOMAIN tbl \ {id} |-> tbl[i]], deleted |-> id \in DOMAIN tbl]

\* ------------------------------------------------------------------------
\* The list queries of the stores.  The result is the set of the rows: the
\* order of the array is left out
\* ------------------------------------------------------------------------
\* db.select().from(table).where(...), and Array.from(map.values()).filter(...)
Select(tbl, Where(_)) == {tbl[i] : i \in {j \in DOMAIN tbl : Where(tbl[j])}}

DbGetTasks(tbl, userId) == Select(tbl, LAMBDA task : task.userId = userId)

MemGetTasks(map, userId) == Select(map, LAMBDA task : task.userId = userId)

DbGetGoalsForAnyYear(tbl, userId, month, year) ==
    Select(tbl, LAMBDA goal : goal.userId = userId /\ goal.month = month)

DbGetGoalsForMonth(tbl, userId, month, year) ==
    Select(tbl, LAMBDA goal :
                    goal.userId = userId /\ goal.month = month /\ goal.year = year)

DbGetObjectivesForQuarter(tbl, userId, quarter, year) ==
    Select(tbl, LAMBDA objective : /\ objective.userId = userId
                                   /\ objective.quarter = quarter
                                   /\ objective.year = year)

DbGetVisionsForYear(tbl, userId, year) ==
    Select(tbl, LAMBDA vision : vision.userId = userId /\ vision.year = year)

\* ------------------------------------------------------------------------
\* server/routes.ts: the goal, objective and vision handlers
\* ------------------------------------------------------------------------
\* new Date(text) for a text that is not empty
DeadlineOf(o) ==
    IF "deadline" \in DOMAIN o /\ o.deadline # ""
    THEN Some(NewDate(o.deadline))
    ELSE Null

PostPlan(K, tbl, userId, body, id, now) ==
    IF userId = NoSession THEN [tbl |-> tbl, res |-> Response(401, "Unauthorized", Null)]
    ELSE
    LET validated == PlanClientParse(K, body)
        validatedData == validated.data
        planData ==
            Spread(Spread(Spread(validatedData, [userId |-> userId]),
                          [k \in K.numbers |-> NumberToString(validatedData[k])]),
                   IF K.deadline THEN [deadline |-> DeadlineOf(validatedData)]
                   ELSE <<>>)
        parsed == PlanInsertParse(K, planData)
        created == DbCreatePlan(K, tbl, parsed.data, id, now)
    IN  IF ~validated.ok \/ ~parsed.ok
        THEN [tbl |-> tbl, res |-> Response(400, K.invalid, Null)]
        ELSE [tbl |-> created.tbl, res |-> Response(201, "", Some(created.row))]

\* v ? v.toString() : undefined, and the keys left undefined are deleted: a
\* number that is 0 and a deadline that is "" are dropped from the update
PatchPlan(K, tbl, userId, id, body, now) ==
    IF userId = NoSession THEN [tbl |-> tbl, res |-> Response(401, "Unauthorized", Null)]
    ELSE
    LET existing == DbGetPlan(tbl, id)
        validated == PlanClientUpdateParse(K, body)
        validatedUpdate == validated.data
        converted ==
            Spread([k \in {n \in K.numbers \cap DOMAIN validatedUpdate :
                              validatedUpdate[n] # 0}
                      |-> NumberToString(validatedUpdate[k])],
                   IF K.deadline /\ DeadlineOf(validatedUpdate) # Null
                   THEN [deadline |-> DeadlineOf(validatedUpdate)]
                   ELSE <<>>)
        updateData ==
            IF K.deadline
            THEN Spread(Strip(validatedUpdate,
                              DOMAIN validatedUpdate \ (K.numbers \cup {"deadline"})),
                        converted)
            ELSE validatedUpdate
        parsed == PlanUpdateParse(K, updateData)
        updated == DbUpdatePlan(K, tbl, id, parsed.data, now)
    IN  IF NotOwned(existing, userId)
        THEN [tbl |-> tbl, res |-> Response(404, K.notFound, Null)]
        ELSE IF ~validated.ok \/ ~parsed.ok
        THEN [tbl |-> tbl, res |-> Response(400, "Invalid update data", Null)]
        ELSE IF updated.row = Null
        THEN [tbl |-> tbl, res |-> Response(404, K.notFound, Null)]
        ELSE [tbl |-> updated.tbl, res |-> Response(200, "", updated.row)]

DeletePlan(K, tbl, userId, id) ==
    IF userId = NoSession THEN [tbl |-> tbl, res |-> Response(401, "Unauthorized", Null)]
    ELSE
    LET existing == DbGetPlan(tbl, id)
        deleted == DbDeletePlan(tbl, id)
    IN  IF NotOwned(existing, userId)
        THEN [tbl |-> tbl, res |-> Response(404, K.notFound, Null)]
        ELSE IF ~deleted.deleted
        THEN [tbl |-> tbl, res |-> Response(404, K.notFound, Null)]
        ELSE [tbl |-> deleted.tbl, res |-> Response(204, "", Null)]

PostGoal(tbl, userId, body, id, now) == PostPlan(Goal, tbl, userId, body, id, now)
PatchGoal(tbl, userId, goalId, body, now) == PatchPlan(Goal, tbl, userId, goalId, body, now)
DeleteGoal(tbl, userId, goalId) == DeletePlan(Goal, tbl, userId, goalId)

PostObjective(tbl, userId, body, id, now) ==
    PostPlan(Objective, tbl, userId, body, id, now)
PatchObjective(tbl, userId, objectiveId, body, now) ==
    PatchPlan(Objective, tbl, userId, objectiveId, body, now)
DeleteObjective(tbl, userId, objectiveId) ==
    DeletePlan(Objective, tbl, userId, objectiveId)

PostVision(tbl, userId, body, id, now) == PostPlan(Vision, tbl, userId, body, id, now)
PatchVision(tbl, userId, visionId, body, now) ==
    PatchPlan(Vision, tbl, userId, visionId, body, now)
DeleteVision(tbl, userId, visionId) == DeletePlan(Vision, tbl, userId, visionId)

\* ------------------------------------------------------------------------
\* The server: requests are handled one at a time
\* ------------------------------------------------------------------------
VARIABLES
    tasks,      \* the tasks table
    goals,      \* the goals table
    objectives, \* the objectives table
    visions,    \* the visions table
    mem,        \* MemStorage.tasks, the Map of an in-memory store
    nextId,     \* the ids given out so far (random UUIDs never repeat)
    clock,      \* the time of the request being handled
    req,        \* the last request
    resp,       \* the response to it
    shadow,     \* a second server handling a second history, see SpecTamper
    call,       \* the last direct call of a storage method and what it returned
    inflight,   \* the update requests that wait at an await, see SpecRace
    apiKey,     \* server/gemini.ts: the API key read from the environment at startup
    ui          \* the state of the client's hooks, see SpecAuth and SpecXP

vars ==
    <<tasks, goals, objectives, visions, mem, nextId, clock, req, resp, shadow, call,
      inflight, apiKey, ui>>

\* what the requests to one server's task routes leave alone
offTasks == <<goals, objectives, visions, mem, shadow, call, inflight, apiKey, ui>>

\* the requests of a run, and the rows it stores (one id sequence serves all
\* the tables)
MaxClock == 3
MaxTasks == 2

Users == {"alice", "bob"}
Sessions == Users \cup {NoSession}
\* the ids a request names: those given out so far and one that never was
KnownIds == 1..nextId

\* request bodies of POST /api/tasks
CreateBodies ==
    {[title |-> "plan", domain |-> "academic", estimatedHours |-> 300],
     [title |-> "plan", domain |-> "academic", estimatedHours |-> 300,
      priority |-> "urgent"],
     [title |-> "plan", domain |-> "fitness", estimatedHours |-> 300,
      priority |-> "constructor"],
     [domain |-> "academic", estimatedHours |-> 300],
     [title |-> "plan", domain |-> "academic", estimatedHours |-> 30],
     [title |-> "plan", domain |-> "academic", estimatedHours |-> 300,
      actualHours |-> Some([c |-> 20000, dp |-> 1])]}

\* request bodies of PATCH /api/tasks/:id
PatchBodies ==
    {<<>>, [isCompleted |-> TRUE], [isCompleted |-> FALSE],
     [actualHours |-> 410], [estimatedHours |-> 50],
     [isCompleted |-> TRUE, actualHours |-> 410],
     [isCompleted |-> TRUE, estimatedHours |-> 50],
     [isCompleted |-> FALSE, actualHours |-> 410],
     [actualHours |-> 5], [isCompleted |-> FALSE, estimatedHours |-> 30]}

Request(method, path, user, id) ==
    [method |-> method, path |-> path, user |-> user, id |-> id]

NoRequest == Request("", "", NoSession, 0)
NoResponse == Response(0, "", Null)
NoCall == [fn |-> "none"]

Init ==
    /\ tasks = <<>>
    /\ goals = <<>>
    /\ objectives = <<>>
    /\ visions = <<>>
    /\ mem = <<>>
    /\ shadow = <<>>
    /\ inflight = <<>>
    /\ apiKey = "key"
    /\ ui = <<>>
    /\ nextId = 1
    /\ clock = 1
    /\ req = NoRequest
    /\ resp = NoResponse
    /\ call = NoCall

\* a request is answered
Answered(q, res) ==
    /\ req' = q
    /\ resp' = res
    /\ clock' = clock + 1

\* a task request is handled: the table it leaves, the response it sends
Handled(q, r) ==
    /\ tasks' = r.tbl
    /\ Answered(q, r.res)

\* a row is stored under a new id
IdTaken == nextId' = IF resp'.status = 201 THEN nextId + 1 ELSE nextId

CreateTaskReq(u, body) ==
    /\ clock <= MaxClock
    /\ nextId <= MaxTasks
    /\ Handled(Request("POST", "tasks", u, 0), PostTask(tasks, u, body, nextId, clock))
    /\ IdTaken
    /\ UNCHANGED offTasks

UpdateTaskReq(u, id, body) ==
    /\ clock <= MaxClock
    /\ Handled(Request("PATCH", "tasks", u, id), PatchTask(tasks, u, id, body, clock))
    /\ UNCHANGED <<nextId, offTasks>>

DeleteTaskReq(u, id) ==
    /\ clock <= MaxClock
    /\ Handled(Request("DELETE", "tasks", u, id), DeleteTask(tasks, u, id))
    /\ UNCHANGED <<nextId, offTasks>>

Next ==
    \/ \E u \in Sessions, body \in CreateBodies : CreateTaskReq(u, body)
    \/ \E u \in Sessions, id \in KnownIds, body \in PatchBodies :
          UpdateTaskReq(u, id, body)
    \/ \E u \in Sessions, id \in KnownIds : DeleteTaskReq(u, id)

Spec == Init /\ [][Next]_vars

\* ------------------------------------------------------------------------
\* The server with its four kinds of entity
\* ------------------------------------------------------------------------
CreateGoalReq(u, body) ==
    /\ clock <= MaxClock
    /\ nextId <= MaxTasks
    /\ LET r == PostGoal(goals, u, body, nextId, clock)
       IN  goals' = r.tbl /\ Answered(Request("POST", "goals", u, 0), r.res)
    /\ IdTaken
    /\ UNCHANGED <<tasks, objectives, visions, mem, shadow, call, inflight, apiKey, ui>>

UpdateGoalReq(u, id, body) ==
    /\ clock <= MaxClock
    /\ LET r == PatchGoal(goals, u, id, body, clock)
       IN  goals' = r.tbl /\ Answered(Request("PATCH", "goals", u, id), r.res)
    /\ UNCHANGED <<nextId, tasks, objectives, visions, mem, shadow, call, inflight, apiKey, ui>>

DeleteGoalReq(u, id) ==
    /\ clock <= MaxClock
    /\ LET r == DeleteGoal(goals, u, id)
       IN  goals' = r.tbl /\ Answered(Request("DELETE", "goals", u, id), r.res)
    /\ UNCHANGED <<nextId, tasks, objectives, visions, mem, shadow, call, inflight, apiKey, ui>>

CreateObjectiveReq(u, body) ==
    /\ clock <= MaxClock
    /\ nextId <= MaxTasks
    /\ LET r == PostObjective(objectives, u, body, nextId, clock)
       IN  objectives' = r.tbl /\ Answered(Request("POST", "objectives", u, 0), r.res)
    /\ IdTaken
    /\ UNCHANGED <<tasks, goals, visions, mem, shadow, call, inflight, apiKey, ui>>

UpdateObjectiveReq(u, id, body) ==
    /\ clock <= MaxClock
    /\ LET r == PatchObjective(objectives, u, id, body, clock)
       IN  objectives' = r.tbl /\ Answered(Request("PATCH", "objectives", u, id), r.res)
    /\ UNCHANGED <<nextId, tasks, goals, visions, mem, shadow, call, inflight, apiKey, ui>>

DeleteObjectiveReq(u, id) ==
    /\ clock <= MaxClock
    /\ LET r == DeleteObjective(objectives, u, id)
       IN  objectives' = r.tbl /\ Answered(Request("DELETE", "objectives", u, id), r.res)
    /\ UNCHANGED <<nextId, tasks, goals, visions, mem, shadow, call, inflight, apiKey, ui>>

CreateVisionReq(u, body) ==
    /\ clock <= MaxClock
    /\ nextId <= MaxTasks
    /\ LET r == PostVision(visions, u, body, nextId, clock)
       IN  visions' = r.tbl /\ Answered(Request("POST", "visions", u, 0), r.res)
    /\ IdTaken
    /\ UNCHANGED <<tasks, goals, objectives, mem, shadow, call, inflight, apiKey, ui>>

UpdateVisionReq(u, id, body) ==
    /\ clock <= MaxClock
    /\ LET r == PatchVision(visions, u, id, body, clock)
       IN  visions' = r.tbl /\ Answered(Request("PATCH", "visions", u, id), r.res)
    /\ UNCHANGED <<nextId, tasks, goals, objectives, mem, shadow, call, inflight, apiKey, ui>>

DeleteVisionReq(u, id) ==
    /\ clock <= MaxClock
    /\ LET r == DeleteVision(visions, u, id)
       IN  visions' = r.tbl /\ Answered(Request("DELETE", "visions", u, id), r.res)
    /\ UNCHANGED <<nextId, tasks, goals, objectives, mem, shadow, call, inflight, apiKey, ui>>

\* the requests of a run over the four kinds
MaxOwnClock == 2

OwnTaskBodies == {[title |-> "plan", domain |-> "academic", estimatedHours |-> 300]}
OwnTaskPatches == {[isCompleted |-> TRUE], [estimatedHours |-> 50]}

GoalBody ==
    [title |-> "read", category |-> "academic", targetValue |-> 1000,
     currentValue |-> 0, unit |-> "pages", deadline |-> "d20250601",
     month |-> 6, year |-> 2025]

GoalBodies == {GoalBody, Strip(GoalBody, DOMAIN GoalBody \ {"currentValue"})}

GoalPatches ==
    {[title |-> "renamed"], [isCompleted |-> TRUE, currentValue |-> 0],
     [targetValue |-> 0 - 100]}

ObjectiveBody ==
    [title |-> "thesis", description |-> "draft", category |-> "academic",
     targetMetric |-> 1000, currentProgress |-> 0, unit |-> "pages",
     deadline |-> "d20250702", quarter |-> 3, year |-> 2025]

ObjectiveBodies == {ObjectiveBody, Spread(ObjectiveBody, [deadline |-> ""])}

ObjectivePatches ==
    {[title |-> "renamed"], [isCompleted |-> TRUE, currentProgress |-> 0],
     [deadline |-> "someday"]}

VisionBody ==
    [title |-> "degree", description |-> "finish", category |-> "academic",
     year |-> 2025, quarterlyBreakdown |-> "{}"]

VisionBodies == {VisionBody, Strip(VisionBody, DOMAIN VisionBody \ {"title"})}

VisionPatches == {[title |-> "renamed"], [isCompleted |-> TRUE]}

NextOwn ==
    \/ \E u \in Users, body \in OwnTaskBodies :
          clock <= MaxOwnClock /\ CreateTaskReq(u, body)
    \/ \E u \in Users, id \in KnownIds, body \in OwnTaskPatches :
          clock <= MaxOwnClock /\ UpdateTaskReq(u, id, body)
    \/ \E u \in Users, id \in KnownIds :
          clock <= MaxOwnClock /\ DeleteTaskReq(u, id)
    \/ \E u \in Users, body \in GoalBodies :
          clock <= MaxOwnClock /\ CreateGoalReq(u, body)
    \/ \E u \in Users, id \in KnownIds, body \in GoalPatches :
          clock <= MaxOwnClock /\ UpdateGoalReq(u, id, body)
    \/ \E u \in Users, id \in KnownIds :
          clock <= MaxOwnClock /\ DeleteGoalReq(u, id)
    \/ \E u \in Users, body \in ObjectiveBodies :
          clock <= MaxOwnClock /\ CreateObjectiveReq(u, body)
    \/ \E u \in Users, id \in KnownIds, body \in ObjectivePatches :
          clock <= MaxOwnClock /\ UpdateObjectiveReq(u, id, body)
    \/ \E u \in Users, id \in KnownIds :
          clock <= MaxOwnClock /\ DeleteObjectiveReq(u, id)
    \/ \E u \in Users, body \in VisionBodies :
          clock <= MaxOwnClock /\ CreateVisionReq(u, body)
    \/ \E u \in Users, id \in KnownIds, body \in VisionPatches :
          clock <= MaxOwnClock /\ UpdateVisionReq(u, id, body)
    \/ \E u \in Users, id \in KnownIds :
          clock <= MaxOwnClock /\ DeleteVisionReq(u, id)

SpecOwn == Init /\ [][NextOwn]_vars

\* ------------------------------------------------------------------------
\* The server with goals, objectives and visions that are completed and
\* un-completed
\* ------------------------------------------------------------------------
\* a completing patch leaves its mark in the title
PlanPatches == {[isCompleted |-> TRUE, title |-> "done"], [isCompleted |-> FALSE]}

\* a patch of the values of a goal and of an objective (hundredths)
ValuePatches ==
    {[targetValue |-> 0, targetMetric |-> 0],
     [currentValue |-> 500, currentProgress |-> 500]}

NextPlan ==
    \/ \E u \in Users : CreateGoalReq(u, GoalBody)
    \/ \E u \in Users, id \in KnownIds, body \in ValuePatches : UpdateGoalReq(u, id, body)
    \/ \E u \in Users, id \in KnownIds, body \in ValuePatches :
          UpdateObjectiveReq(u, id, body)
    \/ \E u \in Users, id \in KnownIds, body \in PlanPatches : UpdateGoalReq(u, id, body)
    \/ \E u \in Users : CreateObjectiveReq(u, ObjectiveBody)
    \/ \E u \in Users, id \in KnownIds, body \in PlanPatches :
          UpdateObjectiveReq(u, id, body)
    \/ \E u \in Users : CreateVisionReq(u, VisionBody)
    \/ \E u \in Users, id \in KnownIds, body \in PlanPatches : UpdateVisionReq(u, id, body)

SpecPlan == Init /\ [][NextPlan]_vars

\* ------------------------------------------------------------------------
\* The server with requests whose bodies name an owner
\* ------------------------------------------------------------------------
\* every body carries a userId of its own
Claimed(body) == Spread(body, [userId |-> "bob"])

ClaimingPatch == [userId |-> "bob", title |-> "renamed"]

NextClaim ==
    \/ \E u \in Users, body \in OwnTaskBodies : CreateTaskReq(u, Claimed(body))
    \/ \E u \in Users, id \in KnownIds : UpdateTaskReq(u, id, ClaimingPatch)
    \/ \E u \in Users : CreateGoalReq(u, Claimed(GoalBody))
    \/ \E u \in Users, id \in KnownIds : UpdateGoalReq(u, id, ClaimingPatch)
    \/ \E u \in Users : CreateObjectiveReq(u, Claimed(ObjectiveBody))
    \/ \E u \in Users, id \in KnownIds : UpdateObjectiveReq(u, id, ClaimingPatch)
    \/ \E u \in Users : CreateVisionReq(u, Claimed(VisionBody))
    \/ \E u \in Users, id \in KnownIds : UpdateVisionReq(u, id, ClaimingPatch)

SpecClaim == Init /\ [][NextClaim]_vars

\* ------------------------------------------------------------------------
\* Two servers handle two histories of task requests that are the same
\* request for request, except for the xpReward and euReward that the
\* bodies carry.  The second server's table and last response are in shadow.
\* ------------------------------------------------------------------------
MaxTamperClock == 3

\* what a client may add to a body
Tamperings ==
    {<<>>, [xpReward |-> 9999, euReward |-> 9999], [euReward |-> 1]}

TamperCreateBodies ==
    {[title |-> "plan", domain |-> "academic", priority |-> "urgent",
      estimatedHours |-> 300],
     [title |-> "plan", domain |-> "academic", estimatedHours |-> 30]}

TamperPatchBodies ==
    {[isCompleted |-> TRUE], [isCompleted |-> TRUE, actualHours |-> 410],
     [estimatedHours |-> 50]}

NoShadow == [tasks |-> <<>>, resp |-> NoResponse, carried |-> <<<<>>, <<>>>>]

InitTamper ==
    /\ tasks = <<>>
    /\ goals = <<>>
    /\ objectives = <<>>
    /\ visions = <<>>
    /\ mem = <<>>
    /\ shadow = NoShadow
    /\ inflight = <<>>
    /\ apiKey = "key"
    /\ ui = <<>>
    /\ nextId = 1
    /\ clock = 1
    /\ req = NoRequest
    /\ resp = NoResponse
    /\ call = NoCall

\* the second server has handled its request, whose body carried t2 where the
\* first server's carried t1
Shadowed(r, t1, t2) == shadow' = [tasks |-> r.tbl, resp |-> r.res, carried |-> <<t1, t2>>]

offPair == <<goals, objectives, visions, mem, call, inflight, apiKey, ui>>

TamperedCreateTaskReq(u, body, t1, t2) ==
    /\ clock <= MaxTamperClock
    /\ nextId <= MaxTasks
    /\ Handled(Request("POST", "tasks", u, 0),
               PostTask(tasks, u, Spread(body, t1), nextId, clock))
    /\ Shadowed(PostTask(shadow.tasks, u, Spread(body, t2), nextId, clock), t1, t2)
    /\ IdTaken
    /\ UNCHANGED offPair

TamperedUpdateTaskReq(u, id, body, t1, t2) ==
    /\ clock <= MaxTamperClock
    /\ Handled(Request("PATCH", "tasks", u, id),
               PatchTask(tasks, u, id, Spread(body, t1), clock))
    /\ Shadowed(PatchTask(shadow.tasks, u, id, Spread(body, t2), clock), t1, t2)
    /\ UNCHANGED <<nextId, offPair>>

PairedDeleteTaskReq(u, id) ==
    /\ clock <= MaxTamperClock
    /\ Handled(Request("DELETE", "tasks", u, id), DeleteTask(tasks, u, id))
    /\ Shadowed(DeleteTask(shadow.tasks, u, id), <<>>, <<>>)
    /\ UNCHANGED <<nextId, offPair>>

NextTamper ==
    \/ \E body \in TamperCreateBodies, t1, t2 \in Tamperings :
          TamperedCreateTaskReq("alice", body, t1, t2)
    \/ \E id \in KnownIds, body \in TamperPatchBodies, t1, t2 \in Tamperings :
          TamperedUpdateTaskReq("alice", id, body, t1, t2)
    \/ \E id \in KnownIds : PairedDeleteTaskReq("alice", id)

SpecTamper == InitTamper /\ [][NextTamper]_vars

\* ------------------------------------------------------------------------
\* The two stores called directly: createTask and getTask
\* ------------------------------------------------------------------------
\* values of InsertTask, as insertTaskSchema.parse gives them
InsertTasks ==
    { Spread(Spread(Spread(Spread(
          [userId |-> "alice", title |-> "plan", domain |-> "academic"], p), e), a), d) :
        p \in {<<>>, [priority |-> "high"]},
        e \in {<<>>, [estimatedHours |-> [c |-> 300, dp |-> 0]]},
        a \in {<<>>, [actualHours |-> Some([c |-> 200, dp |-> 1])]},
        d \in {<<>>, [description |-> Some("notes"),
                      dueDate |-> Some(NewDate("d20250601"))]} }

offStores == <<goals, objectives, visions, req, resp, shadow, inflight, apiKey, ui>>

\* a method of a store has returned
Called(fn, store, arg, id, result) ==
    call' = [fn |-> fn, store |-> store, arg |-> arg, id |-> id, result |-> result]

MemCreateTaskCall(insertTask) ==
    /\ nextId <= MaxTasks
    /\ LET r == MemCreateTask(mem, insertTask, nextId, clock)
       IN  mem' = r.map /\ Called("createTask", "mem", insertTask, nextId, Some(r.row))
    /\ nextId' = nextId + 1
    /\ clock' = clock + 1
    /\ UNCHANGED <<tasks, offStores>>

DbCreateTaskCall(insertTask) ==
    /\ nextId <= MaxTasks
    /\ LET r == DbCreateTask(tasks, insertTask, nextId, clock)
       IN  tasks' = r.tbl /\ Called("createTask", "db", insertTask, nextId, Some(r.row))
    /\ nextId' = nextId + 1
    /\ clock' = clock + 1
    /\ UNCHANGED <<mem, offStores>>

MemGetTaskCall(id) ==
    /\ Called("getTask", "mem", id, id, MemGetTask(mem, id))
    /\ UNCHANGED <<tasks, mem, nextId, clock, offStores>>

DbGetTaskCall(id) ==
    /\ Called("getTask", "db", id, id, DbGetTask(tasks, id))
    /\ UNCHANGED <<tasks, mem, nextId, clock, offStores>>

NextStore ==
    \/ \E insertTask \in InsertTasks : MemCreateTaskCall(insertTask)
    \/ \E insertTask \in InsertTasks : DbCreateTaskCall(insertTask)
    \/ \E id \in KnownIds : MemGetTaskCall(id)
    \/ \E id \in KnownIds : DbGetTaskCall(id)

SpecStore == Init /\ [][NextStore]_vars

\* ------------------------------------------------------------------------
\* The two stores called side by side: every call is made on the in-memory
\* store and on the database store with the same arguments
\* ------------------------------------------------------------------------
MaxTwinClock == 3

\* values of InsertTask
TwinInserts ==
    {[userId |-> "alice", title |-> "plan", domain |-> "academic"],
     [userId |-> "alice", title |-> "plan", domain |-> "fitness",
      priority |-> "urgent", estimatedHours |-> [c |-> 300, dp |-> 0],
      actualHours |-> Some([c |-> 200, dp |-> 1])]}

\* values of UpdateTask
TwinUpdates ==
    {[isCompleted |-> TRUE],
     [isCompleted |-> TRUE, actualHours |-> Some([c |-> 410, dp |-> 1])],
     [isCompleted |-> FALSE, title |-> "renamed",
      estimatedHours |-> [c |-> 50, dp |-> 1]],
     [isCompleted |-> TRUE, priority |-> "low", domain |-> "fitness"]}

\* both stores have answered the call
\* the tasks returned, the flags returned, and whether the database threw
CalledBoth(fn, arg, id, memResult, dbResult, deleted, threw) ==
    call' = [fn |-> fn, arg |-> arg, id |-> id, mem |-> memResult, db |-> dbResult,
             deleted |-> deleted, threw |-> threw]

NoneDeleted == [mem |-> FALSE, db |-> FALSE]

BothCreated(insertTask, m, d) ==
    /\ mem' = m.map
    /\ tasks' = d.tbl
    /\ CalledBoth("createTask", insertTask, nextId, Some(m.row), Some(d.row),
                  NoneDeleted, FALSE)

CreateTaskCalls(insertTask) ==
    /\ nextId <= MaxTasks
    /\ BothCreated(insertTask, MemCreateTask(mem, insertTask, nextId, clock),
                   DbCreateTask(tasks, insertTask, nextId, clock))
    /\ nextId' = nextId + 1
    /\ clock' = clock + 1
    /\ UNCHANGED offStores

BothUpdated(id, updateData, m, d) ==
    /\ mem' = m.map
    /\ tasks' = d.tbl
    /\ CalledBoth("updateTask", updateData, id, m.row, d.row, NoneDeleted, d.threw)

UpdateTaskCalls(id, updateData) ==
    /\ clock <= MaxTwinClock
    /\ BothUpdated(id, updateData, MemUpdateTask(mem, id, updateData, clock),
                   DbUpdateTask(tasks, id, updateData, clock))
    /\ clock' = clock + 1
    /\ UNCHANGED <<nextId, offStores>>

BothDeleted(id, m, d) ==
    /\ mem' = m.map
    /\ tasks' = d.tbl
    /\ CalledBoth("deleteTask", id, id, Null, Null,
                  [mem |-> m.deleted, db |-> d.deleted], FALSE)

DeleteTaskCalls(id) ==
    /\ BothDeleted(id, MemDeleteTask(mem, id), DbDeleteTask(tasks, id))
    /\ UNCHANGED <<nextId, clock, offStores>>

GetTaskCalls(id) ==
    /\ CalledBoth("getTask", id, id, MemGetTask(mem, id), DbGetTask(tasks, id),
                  NoneDeleted, FALSE)
    /\ UNCHANGED <<tasks, mem, nextId, clock, offStores>>

NextTwin ==
    \/ \E insertTask \in TwinInserts : CreateTaskCalls(insertTask)
    \/ \E id \in KnownIds, updateData \in TwinUpdates : UpdateTaskCalls(id, updateData)
    \/ \E id \in KnownIds : DeleteTaskCalls(id)
    \/ \E id \in KnownIds : GetTaskCalls(id)

SpecTwin == Init /\ [][NextTwin]_vars

\* ------------------------------------------------------------------------
\* The server with update requests in flight: a handler runs up to its next
\* await, and the handlers of other requests run before it goes on
\* ------------------------------------------------------------------------
MaxRaceClock == 4

\* the requests that can be in flight together
Slots == {"first", "second"}

RaceCreateBody == [title |-> "plan", domain |-> "academic", estimatedHours |-> 300]

RacePatchBodies ==
    {[isCompleted |-> TRUE], [isCompleted |-> TRUE, actualHours |-> 410],
     [isCompleted |-> FALSE], [estimatedHours |-> 50]}

offRace == <<goals, objectives, visions, mem, shadow, apiKey, ui>>

\* POST /api/tasks, once
RaceCreateTaskReq(u) ==
    /\ nextId = 1
    /\ CreateTaskReq(u, RaceCreateBody)

\* the handler has run up to storage.updateTask, or has answered
Begun(s, q, b) ==
    /\ req' = IF b.calls THEN req ELSE q
    /\ resp' = IF b.calls THEN resp ELSE b.res
    /\ inflight' = IF b.calls
                   THEN Spread(inflight,
                               [i \in {s} |-> [pc |-> "read", q |-> q,
                                               updateData |-> b.updateData,
                                               final |-> <<>>]])
                   ELSE inflight

\* routes 61-96: session, storage.getTask, the guards, the conversion
BeginUpdateTaskReq(s, u, id, body) ==
    /\ clock <= MaxRaceClock
    /\ s \notin DOMAIN inflight
    /\ Begun(s, Request("PATCH", "tasks", u, id),
             PatchTaskBegin(tasks, u, id, body, clock))
    /\ clock' = clock + 1
    /\ UNCHANGED <<tasks, nextId, call, offRace>>

\* storage 399-422: this.getTask and finalUpdateData
ReadForUpdate(s) ==
    /\ s \in DOMAIN inflight
    /\ inflight[s].pc = "read"
    /\ inflight' = [inflight EXCEPT ![s].pc = "write",
                        ![s].final = DbUpdateTaskRead(tasks, inflight[s].q.id,
                                                      inflight[s].updateData, clock)]
    /\ clock' = clock + 1
    /\ UNCHANGED <<tasks, nextId, req, resp, call, offRace>>

\* the statement has run and the handler has answered
Written(s, before, r) ==
    /\ tasks' = r.tbl
    /\ req' = inflight[s].q
    /\ resp' = r.res
    /\ call' = [fn |-> "updateTask", id |-> inflight[s].q.id, before |-> before,
                arg |-> TaskColumnValues(inflight[s].final.set)]
    /\ inflight' = [i \in DOMAIN inflight \ {s} |-> inflight[i]]

\* storage 424-430 and routes 96-102: the statement and the response
WriteUpdate(s) ==
    /\ s \in DOMAIN inflight
    /\ inflight[s].pc = "write"
    /\ Written(s, DbGetTask(tasks, inflight[s].q.id),
               PatchTaskResponse(tasks,
                   DbUpdateTaskWrite(tasks, inflight[s].q.id, inflight[s].final)))
    /\ clock' = clock + 1
    /\ UNCHANGED <<nextId, offRace>>

NextRace ==
    \/ \E u \in Users : RaceCreateTaskReq(u)
    \/ \E s \in Slots, u \in Sessions, id \in KnownIds, body \in RacePatchBodies :
          BeginUpdateTaskReq(s, u, id, body)
    \/ \E s \in Slots : ReadForUpdate(s)
    \/ \E s \in Slots : WriteUpdate(s)

SpecRace == Init /\ [][NextRace]_vars

\* ------------------------------------------------------------------------
\* The list queries called on stores that hold entities of two users and of
\* several periods
\* ------------------------------------------------------------------------
ListInserts ==
    {[userId |-> u, title |-> "plan", domain |-> "academic"] : u \in Users}

\* the body with another period key
Moved(body, period) == {body, Spread(body, period)}

\* everything but the call
offList ==
    <<tasks, goals, objectives, visions, mem, nextId, clock, req, resp, shadow,
      inflight, apiKey, ui>>

\* a list query has returned
Listed(fn, user, period, result) ==
    /\ call' = [fn |-> fn, user |-> user, period |-> period, result |-> result]
    /\ UNCHANGED offList

DbGetTasksCall(u) == Listed("getTasks", u, <<>>, DbGetTasks(tasks, u))

MemGetTasksCall(u) == Listed("MemStorage.getTasks", u, <<>>, MemGetTasks(mem, u))

GetGoalsForMonthCall(u, month, year) ==
    Listed("getGoalsForMonth", u, <<month, year>>,
           DbGetGoalsForMonth(goals, u, month, year))

GetObjectivesForQuarterCall(u, quarter, year) ==
    Listed("getObjectivesForQuarter", u, <<quarter, year>>,
           DbGetObjectivesForQuarter(objectives, u, quarter, year))

GetVisionsForYearCall(u, year) ==
    Listed("getVisionsForYear", u, <<year>>, DbGetVisionsForYear(visions, u, year))

NextList ==
    \/ \E insertTask \in ListInserts : CreateTaskCalls(insertTask)
    \/ \E u \in Users, body \in Moved(GoalBody, [month |-> 7]) \cup
                                Moved(GoalBody, [year |-> 2026]) :
          CreateGoalReq(u, body)
    \/ \E u \in Users, body \in Moved(ObjectiveBody, [quarter |-> 4]) \cup
                                Moved(ObjectiveBody, [year |-> 2026]) :
          CreateObjectiveReq(u, body)
    \/ \E u \in Users, body \in Moved(VisionBody, [year |-> 2026]) :
          CreateVisionReq(u, body)
    \/ \E u \in Users : DbGetTasksCall(u)
    \/ \E u \in Users : MemGetTasksCall(u)
    \/ \E u \in Users, month \in {6, 7}, year \in {2025, 2026} :
          GetGoalsForMonthCall(u, month, year)
    \/ \E u \in Users, quarter \in {3, 4}, year \in {2025, 2026} :
          GetObjectivesForQuarterCall(u, quarter, year)
    \/ \E u \in Users, year \in {2025, 2026} : GetVisionsForYearCall(u, year)

SpecList == Init /\ [][NextList]_vars

\* ------------------------------------------------------------------------
\* The reward functions called directly
\* ------------------------------------------------------------------------
\* the largest actualHours and the step of actualHours that validation
\* accepts, in hundredths
MaxActualHours == 10000
ActualHoursStep == 10

RewardKeys ==
    {"low", "medium", "high", "urgent", "academic", "fitness", "creative",
     "social", "maintenance", "unknown", "", "constructor", "toString"}

RewardHours == {h \in 0..MaxActualHours : h % ActualHoursStep = 0}

InitReward ==
    /\ tasks = <<>>
    /\ goals = <<>>
    /\ objectives = <<>>
    /\ visions = <<>>
    /\ mem = <<>>
    /\ shadow = <<>>
    /\ inflight = <<>>
    /\ apiKey = "key"
    /\ ui = <<>>
    /\ nextId = 1
    /\ clock = 1
    /\ req = NoRequest
    /\ resp = NoResponse
    /\ call \in [fn : {"none"}, key : RewardKeys, hours : RewardHours]

offCall ==
    <<tasks, goals, objectives, visions, mem, nextId, clock, req, resp, shadow,
      inflight, apiKey, ui>>

Returned(fn, result) ==
    call' = [fn |-> fn, key |-> call.key, hours |-> call.hours, result |-> result]

CalculateXPRewardCall ==
    /\ call.fn = "none"
    /\ Returned("calculateXPReward",
                calculateXPReward(call.key, DecimalToNumber(call.hours)))
    /\ UNCHANGED offCall

CalculateEURewardCall ==
    /\ call.fn = "none"
    /\ Returned("calculateEUReward",
                calculateEUReward(call.key, DecimalToNumber(call.hours)))
    /\ UNCHANGED offCall

NextReward == CalculateXPRewardCall \/ CalculateEURewardCall

SpecReward == InitReward /\ [][NextReward]_vars

\* ------------------------------------------------------------------------
\* Properties of the task lifecycle
\* ------------------------------------------------------------------------
Unset(body) == "isCompleted" \in DOMAIN body /\ body.isCompleted = FALSE
Sets(body) == "isCompleted" \in DOMAIN body /\ body.isCompleted = TRUE

\* C1: once a task is stored completed, every update request whose patch has
\* isCompleted = false is rejected and leaves the whole table as it was; the
\* owner gets 400, and "Cannot un-complete a task" when the patch is
\* otherwise valid; no step takes a stored task from completed to pending.
MonotonicCompletion ==
    [][ /\ \A id \in DOMAIN tasks \cap DOMAIN tasks' :
              tasks[id].isCompleted => tasks'[id].isCompleted
        /\ \A u \in Sessions, id \in DOMAIN tasks, body \in PatchBodies :
              ( /\ tasks[id].isCompleted
                /\ Unset(body)
                /\ UpdateTaskReq(u, id, body) )
              => /\ tasks' = tasks
                 /\ resp'.status \in {400, 401, 404}
                 /\ tasks[id].userId = u => resp'.status = 400
                 /\ (tasks[id].userId = u /\ clientUpdateTaskSchemaParse(body).ok)
                       => resp'.error = "Cannot un-complete a task"
      ]_vars

UncompleteWasRejected ==
    /\ resp.status = 400
    /\ resp.error = "Cannot un-complete a task"
    /\ \E id \in DOMAIN tasks : tasks[id].isCompleted /\ tasks[id].updatedAt < clock - 1

\* the hours are outside lo..hi or are not a multiple of the step (hundredths)
OutOfRange(c, lo, hi, step) == c < lo \/ c > hi \/ c % step # 0

\* the body of a create request fails a constraint
CreateFails(body) ==
    \/ ~({"title", "domain", "estimatedHours"} \subseteq DOMAIN body)
    \/ OutOfRange(body.estimatedHours, 50, 2400, 50)
    \/ /\ "actualHours" \in DOMAIN body
       /\ body.actualHours # Null
       /\ OutOfRange(body.actualHours[1].c, 10, 10000, 10)

\* the body of an update request fails a constraint
PatchFails(body) ==
    \/ "estimatedHours" \in DOMAIN body /\ OutOfRange(body.estimatedHours, 50, 2400, 50)
    \/ "actualHours" \in DOMAIN body /\ OutOfRange(body.actualHours, 10, 10000, 10)

\* C12: a create request of a signed-in user, or an update request of a
\* task's owner, whose body fails a constraint (estimatedHours outside 0.5..24
\* or not a multiple of 0.5, actualHours outside 0.1..100 or not a multiple of
\* 0.1, a required field missing) is answered 400 and leaves the whole table
\* as it was: no task is created and no field of a stored task changes.
InvalidInputRejected ==
    [][ /\ \A u \in Users, body \in CreateBodies :
              (CreateFails(body) /\ CreateTaskReq(u, body))
              => resp'.status = 400 /\ tasks' = tasks
        /\ \A u \in Users, id \in DOMAIN tasks, body \in PatchBodies :
              (tasks[id].userId = u /\ PatchFails(body) /\ UpdateTaskReq(u, id, body))
              => resp'.status = 400 /\ tasks' = tasks
      ]_vars

\* C2: a task that is stored completed keeps its xpReward, euReward and
\* completedAt in every later step in which it stays stored.
RewardsFixedOnceCompleted ==
    [][ \A id \in DOMAIN tasks \cap DOMAIN tasks' :
            tasks[id].isCompleted =>
                /\ tasks'[id].xpReward = tasks[id].xpReward
                /\ tasks'[id].euReward = tasks[id].euReward
                /\ tasks'[id].completedAt = tasks[id].completedAt
      ]_vars

\* the update of a pending task that asks for completion, gives no
\* actualHours and succeeds
CompletesWithoutHours(u, id, body) ==
    /\ id \in DOMAIN tasks
    /\ ~tasks[id].isCompleted
    /\ Sets(body)
    /\ "actualHours" \notin DOMAIN body
    /\ resp'.status = 200
    /\ id \in DOMAIN tasks'
    /\ tasks'[id].isCompleted
    /\ UpdateTaskReq(u, id, body)

\* C3 as stated: after such an update the stored actualHours equals the
\* stored estimatedHours, whatever else the patch changes.
HoursFallbackToStoredEstimate ==
    [][ \A u \in Users, id \in KnownIds, body \in PatchBodies :
            CompletesWithoutHours(u, id, body) =>
                tasks'[id].actualHours = Some(tasks'[id].estimatedHours)
      ]_vars

\* C3 amended: after such an update the stored actualHours is the
\* estimatedHours the task had before the update, the rewards are those of
\* the task's priority and domain for that many hours, and 3.0 hours of an
\* urgent academic task give 120 XP and 30 EU.
HoursFallbackToPreviousEstimate ==
    [][ \A u \in Users, id \in KnownIds, body \in PatchBodies :
            CompletesWithoutHours(u, id, body) =>
                LET before == tasks[id]
                    after == tasks'[id]
                    hours == DecimalToNumber(before.estimatedHours.c)
                IN  /\ after.actualHours = Some(before.estimatedHours)
                    /\ after.isCompleted
                    /\ after.xpReward = calculateXPReward(before.priority, hours).n
                    /\ after.euReward = calculateEUReward(before.domain, hours).n
                    /\ ( /\ before.estimatedHours.c = 300
                         /\ before.priority = "urgent"
                         /\ before.domain = "academic" )
                       => after.xpReward = 120 /\ after.euReward = 30
                    /\ "estimatedHours" \notin DOMAIN body
                          => after.actualHours = Some(after.estimatedHours)
      ]_vars

CompletedOnPreviousEstimate ==
    \E id \in DOMAIN tasks :
        /\ tasks[id].isCompleted
        /\ tasks[id].actualHours = Some([c |-> 300, dp |-> 1])
        /\ tasks[id].estimatedHours = [c |-> 50, dp |-> 1]
        /\ tasks[id].xpReward = 120
        /\ tasks[id].euReward = 30
        /\ resp.status = 200

CompletedAtSetOnce ==
    [][ /\ \A id \in DOMAIN tasks' :
              (tasks'[id].completedAt # Null) <=> tasks'[id].isCompleted
        /\ \A id \in DOMAIN tasks \cap DOMAIN tasks' :
              tasks[id].completedAt # Null
                  => tasks'[id].completedAt = tasks[id].completedAt
      ]_vars

\* ------------------------------------------------------------------------
\* Properties of the reward functions
\* ------------------------------------------------------------------------
\* num/den rounded to the nearest integer, halves up
RoundHalfUp(num, den) == (2 * num + den) \div (2 * den)

BasePriorityXP(priority) ==
    CASE priority = "low" -> 10
      [] priority = "high" -> 25
      [] priority = "urgent" -> 40
      [] OTHER -> 15

\* a domain's multiplier, in hundredths
DomainMultiplier(domain) ==
    CASE domain = "fitness" -> 250
      [] domain = "creative" -> 80
      [] domain = "social" -> 120
      [] domain = "maintenance" -> 60
      [] OTHER -> 100

\* C4: for every priority and every hours h that is a multiple of 0.1 up to
\* 100, calculateXPReward returns base * h rounded to the nearest integer,
\* halves up, with base 10, 15, 25, 40 for low, medium, high, urgent and 15
\* for every other priority string.
XPRewardIsRoundedProduct ==
    call.fn = "calculateXPReward" =>
        call.result =
            [nan |-> FALSE,
             n |-> RoundHalfUp(BasePriorityXP(call.key) * call.hours, 100)]

\* C5: for every domain and every hours h that is a multiple of 0.1 up to
\* 100, calculateEUReward returns multiplier * h * 10 rounded to the nearest
\* integer, with multiplier 1.0, 2.5, 0.8, 1.2, 0.6 for academic, fitness,
\* creative, social, maintenance and 1.0 for every other domain string.
EURewardIsRoundedProduct ==
    call.fn = "calculateEUReward" =>
        call.result =
            [nan |-> FALSE,
             n |-> RoundHalfUp(DomainMultiplier(call.key) * call.hours, 1000)]

\* ------------------------------------------------------------------------
\* Properties of ownership
\* ------------------------------------------------------------------------
\* the id is stored for another user, or is not stored at all
NotOnesOwn(tbl, u, id) == id \notin DOMAIN tbl \/ tbl[id].userId # u

\* the request is refused as not found, nothing is returned and no table
\* changes
Refused(error) ==
    /\ resp' = Response(404, error, Null)
    /\ UNCHANGED <<tasks, goals, objectives, visions>>

\* C6: for each of Task, Goal, Objective and Vision, an update or delete
\* request by a user on an id stored for another user is answered 404 with
\* "<Kind> not found", exactly as for an id that is not stored, returns no
\* row and leaves every table as it was.
OwnershipIsolation ==
    [][ \A u \in Users, id \in 1..(MaxTasks + 1) :
          /\ NotOnesOwn(tasks, u, id) =>
                /\ \A body \in OwnTaskPatches :
                      UpdateTaskReq(u, id, body) => Refused("Task not found")
                /\ DeleteTaskReq(u, id) => Refused("Task not found")
          /\ NotOnesOwn(goals, u, id) =>
                /\ \A body \in GoalPatches :
                      UpdateGoalReq(u, id, body) => Refused("Goal not found")
                /\ DeleteGoalReq(u, id) => Refused("Goal not found")
          /\ NotOnesOwn(objectives, u, id) =>
                /\ \A body \in ObjectivePatches :
                      UpdateObjectiveReq(u, id, body) => Refused("Objective not found")
                /\ DeleteObjectiveReq(u, id) => Refused("Objective not found")
          /\ NotOnesOwn(visions, u, id) =>
                /\ \A body \in VisionPatches :
                      UpdateVisionReq(u, id, body) => Refused("Vision not found")
                /\ DeleteVisionReq(u, id) => Refused("Vision not found")
      ]_vars

\* a request on another user's goal has been refused
ForeignRequestRefused ==
    /\ req.path = "goals"
    /\ req.method \in {"PATCH", "DELETE"}
    /\ req.id \in DOMAIN goals
    /\ goals[req.id].userId # req.user
    /\ goals[req.id].updatedAt = goals[req.id].createdAt
    /\ resp = Response(404, "Goal not found", Null)

\* a step keeps the owner of every row of the table, and a new row is owned
\* by the user who made the request
OwnersKept(tbl, after) ==
    /\ \A id \in DOMAIN tbl \cap DOMAIN after : after[id].userId = tbl[id].userId
    /\ \A id \in DOMAIN after \ DOMAIN tbl : after[id].userId = req'.user

\* C23: the owner of a created task, goal, objective or vision is the user
\* who made the request, whatever userId the body names, and no update
\* request changes the userId of a stored one.
OwnerIsRequester ==
    [][ /\ OwnersKept(tasks, tasks')
        /\ OwnersKept(goals, goals')
        /\ OwnersKept(objectives, objectives')
        /\ OwnersKept(visions, visions') ]_vars

\* alice has created a task and updated it with bodies that name bob, and
\* the task is hers
ClaimIgnored ==
    /\ req.method = "PATCH"
    /\ req.path = "tasks"
    /\ req.user = "alice"
    /\ resp.status = 200
    /\ req.id \in DOMAIN tasks
    /\ tasks[req.id].title = "renamed"
    /\ tasks[req.id].userId = "alice"

\* the result holds rows of the table only, all of them owned by the user
\* and of the period, and it holds every such row of the table
Exactly(result, tbl, user, InPeriod(_)) ==
    /\ \A row \in result :
          /\ \E id \in DOMAIN tbl : tbl[id] = row
          /\ row.userId = user
          /\ InPeriod(row)
    /\ \A id \in DOMAIN tbl :
          (tbl[id].userId = user /\ InPeriod(tbl[id])) => tbl[id] \in result

\* C22: getTasks(u) of either store returns exactly the stored tasks owned
\* by u, and getGoalsForMonth(u, m, y), getObjectivesForQuarter(u, q, y) and
\* getVisionsForYear(u, y) return exactly the stored entities owned by u
\* whose period key equals the arguments; no result holds an entity of
\* another user.
ListsAreScoped ==
    [][ call' # call =>
          /\ call'.fn = "getTasks" =>
                Exactly(call'.result, tasks, call'.user, LAMBDA task : TRUE)
          /\ call'.fn = "MemStorage.getTasks" =>
                Exactly(call'.result, mem, call'.user, LAMBDA task : TRUE)
          /\ call'.fn = "getGoalsForMonth" =>
                Exactly(call'.result, goals, call'.user,
                        LAMBDA goal : /\ goal.month = call'.period[1]
                                      /\ goal.year = call'.period[2])
          /\ call'.fn = "getObjectivesForQuarter" =>
                Exactly(call'.result, objectives, call'.user,
                        LAMBDA objective : /\ objective.quarter = call'.period[1]
                                           /\ objective.year = call'.period[2])
          /\ call'.fn = "getVisionsForYear" =>
                Exactly(call'.result, visions, call'.user,
                        LAMBDA vision : vision.year = call'.period[1])
      ]_vars

\* a list of goals was returned that leaves out a stored goal
GoalsFiltered ==
    /\ call.fn = "getGoalsForMonth"
    /\ call.result # {}
    /\ \A goal \in call.result : \E id \in DOMAIN goals : goals[id] = goal
    /\ \E id \in DOMAIN goals : goals[id] \notin call.result

\* ------------------------------------------------------------------------
\* Properties of what a client can set
\* ------------------------------------------------------------------------
\* C7: two histories of create, update and delete requests that differ only
\* in the xpReward and euReward their bodies carry leave the same stored tasks
\* and get the same responses, and no stored reward is a value a body carried.
RewardsNotClientSettable ==
    /\ shadow.tasks = tasks
    /\ shadow.resp = resp
    /\ \A id \in DOMAIN tasks, t \in Tamperings :
          \A k \in DOMAIN t : tasks[id][k] # t[k]

\* a completion whose body carried rewards in one history only
TamperedCompletion ==
    /\ shadow.carried[1] # shadow.carried[2]
    /\ "xpReward" \in DOMAIN shadow.carried[1]
    /\ req.method = "PATCH"
    /\ resp.status = 200
    /\ \E id \in DOMAIN tasks :
          /\ tasks[id].isCompleted
          /\ tasks[id].xpReward = 120
          /\ tasks[id].euReward = 30

\* ------------------------------------------------------------------------
\* Properties of the stores
\* ------------------------------------------------------------------------
\* the stored value of a field is the value the caller gave: the same number
\* for the hours, the same instant for the date, the same value otherwise
SameValue(k, stored, given) ==
    IF k = "estimatedHours" THEN stored.c = given.c
    ELSE IF k = "actualHours"
    THEN IF given = Null THEN stored = Null
         ELSE stored # Null /\ stored[1].c = given[1].c
    ELSE IF k = "dueDate"
    THEN IF given = Null THEN stored = Null
         ELSE stored = given \/ stored = Some(given[1].t)
    ELSE stored = given

ReadBack(given, id, now, result) ==
    /\ result # Null
    /\ \A k \in DOMAIN given : SameValue(k, result[1][k], given[k])
    /\ result[1].id = id
    /\ result[1].createdAt = now
    /\ result[1].updatedAt = now
    /\ result[1].xpReward = 0
    /\ result[1].euReward = 0

\* C10: in the in-memory store and in the database store, getTask called
\* right after createTask with the new task's id returns a task that has the
\* value given for every field of the input (actualHours included when it is
\* given), the new id, the creation time as createdAt and updatedAt, and
\* xpReward = euReward = 0.
CreateThenGetRoundTrip ==
    [][ \A id \in 1..MaxTasks :
          (call.fn = "createTask" /\ call.id = id) =>
             /\ (call.store = "mem" /\ MemGetTaskCall(id))
                   => ReadBack(call.arg, id, clock - 1, call'.result)
             /\ (call.store = "db" /\ DbGetTaskCall(id))
                   => ReadBack(call.arg, id, clock - 1, call'.result)
      ]_vars

\* the ids that either store may hold or may have held
IssuedIds == 1..(MaxTasks + 1)

\* C11: in both stores, deleteTask on an id that is not stored returns false
\* and changes nothing; deleteTask on a stored id returns true and removes
\* exactly that task; an id that is not stored stays not stored, so that a
\* later getTask or updateTask of it returns nothing and a second deleteTask
\* returns false.
DeleteSignalsExistence ==
    [][ \A id \in IssuedIds :
          /\ DeleteTaskCalls(id) =>
                /\ call'.deleted.mem = (id \in DOMAIN mem)
                /\ call'.deleted.db = (id \in DOMAIN tasks)
                /\ ~call'.threw
                /\ DOMAIN mem' = DOMAIN mem \ {id}
                /\ DOMAIN tasks' = DOMAIN tasks \ {id}
                /\ \A other \in DOMAIN mem' : mem'[other] = mem[other]
                /\ \A other \in DOMAIN tasks' : tasks'[other] = tasks[other]
          /\ (id < nextId /\ id \notin DOMAIN mem) => id \notin DOMAIN mem'
          /\ (id < nextId /\ id \notin DOMAIN tasks) => id \notin DOMAIN tasks'
          /\ (call'.id = id /\ call'.fn \in {"getTask", "updateTask"}) =>
                /\ id \notin DOMAIN mem => call'.mem = Null
                /\ id \notin DOMAIN tasks => call'.db = Null /\ ~call'.threw
          /\ (call'.id = id /\ call'.fn = "deleteTask") =>
                /\ id \notin DOMAIN mem => ~call'.deleted.mem
                /\ id \notin DOMAIN tasks => ~call'.deleted.db
      ]_vars

\* a task was deleted, and the next call on its id was answered
DeletedThenAsked ==
    /\ call.fn \in {"getTask", "updateTask", "deleteTask"}
    /\ call.id < nextId
    /\ call.id \notin DOMAIN mem
    /\ call.id \notin DOMAIN tasks
    /\ call.mem = Null
    /\ call.db = Null
    /\ call.deleted = NoneDeleted

\* the step is an updateTask of the id on both stores
UpdateTaskCalled(id) ==
    /\ call'.fn = "updateTask"
    /\ call'.id = id
    /\ clock' = clock + 1

\* the update left the row with updatedAt at the time of the update, and
\* with the id and the createdAt it had
Refreshed(before, after, now) ==
    /\ after.updatedAt = now
    /\ after.updatedAt >= before.updatedAt
    /\ after.createdAt = before.createdAt
    /\ after.id = before.id

\* C13: in both stores, every updateTask of a stored task returns and stores
\* the task with updatedAt equal to the time of the update, which is never
\* earlier than the updatedAt it had, and with its createdAt and its id
\* unchanged.
UpdateRefreshesUpdatedAt ==
    [][ \A id \in IssuedIds :
          UpdateTaskCalled(id) =>
             /\ id \in DOMAIN mem =>
                   /\ call'.mem = Some(mem'[id])
                   /\ Refreshed(mem[id], mem'[id], clock)
             /\ id \in DOMAIN tasks =>
                   /\ ~call'.threw
                   /\ call'.db = Some(tasks'[id])
                   /\ Refreshed(tasks[id], tasks'[id], clock)
      ]_vars

\* both stores have updated a task after the time of its creation
UpdatedLater ==
    /\ call.fn = "updateTask"
    /\ call.mem # Null
    /\ call.db # Null
    /\ call.mem[1].updatedAt > call.mem[1].createdAt
    /\ call.db[1].updatedAt > call.db[1].createdAt

\* the task is Pending, without rewards, with the defaults for what the
\* input leaves out
PendingWithDefaults(insertTask, task) ==
    /\ task.isCompleted = FALSE
    /\ task.xpReward = 0
    /\ task.euReward = 0
    /\ task.completedAt = Null
    /\ "priority" \notin DOMAIN insertTask => task.priority = "medium"
    /\ "estimatedHours" \notin DOMAIN insertTask =>
          task.estimatedHours = [c |-> 100, dp |-> 1]

\* C14: in both stores, createTask returns and stores a task with
\* isCompleted = false, xpReward = 0, euReward = 0 and completedAt = null,
\* with priority "medium" when the input gives no priority and estimatedHours
\* "1.0" when the input gives no estimatedHours.
CreateTaskGivesPending ==
    [][ \A insertTask \in TwinInserts :
          CreateTaskCalls(insertTask) =>
             /\ call'.mem = Some(mem'[nextId])
             /\ call'.db = Some(tasks'[nextId])
             /\ PendingWithDefaults(insertTask, mem'[nextId])
             /\ PendingWithDefaults(insertTask, tasks'[nextId])
      ]_vars

\* both stores have created a task from an input without priority and
\* without estimatedHours
CreatedFromBareInput ==
    /\ call.fn = "createTask"
    /\ DOMAIN call.arg = {"userId", "title", "domain"}
    /\ call.id \in DOMAIN mem
    /\ call.id \in DOMAIN tasks

\* the same hours, or none in both
SameHours(a, b) == IF a = Null \/ b = Null THEN a = b ELSE a[1].c = b[1].c

\* the two stores returned the same: nothing in both, or tasks that agree
SameTask(a, b) ==
    IF a = Null \/ b = Null THEN a = b
    ELSE /\ a[1].isCompleted = b[1].isCompleted
         /\ a[1].xpReward = b[1].xpReward
         /\ a[1].euReward = b[1].euReward
         /\ SameHours(a[1].actualHours, b[1].actualHours)
         /\ (a[1].completedAt = Null) = (b[1].completedAt = Null)

\* C20: after every sequence of createTask, updateTask, deleteTask and
\* getTask calls made on both stores with the same arguments, the two stores
\* have returned the same to the last call: the same flag from deleteTask,
\* and from the others nothing in both or tasks that agree on isCompleted,
\* xpReward, euReward, actualHours and on whether completedAt is set.
StoresAgree ==
    call.fn \in {"createTask", "updateTask", "deleteTask", "getTask"} =>
        /\ ~call.threw
        /\ call.deleted.mem = call.deleted.db
        /\ SameTask(call.mem, call.db)

\* ------------------------------------------------------------------------
\* Properties of the hours of a task
\* ------------------------------------------------------------------------
\* C19: actualHours is set only on completion: no request takes a stored
\* task without actualHours to a state where it has actualHours and is not
\* completed, so that a task created without actualHours has none for as
\* long as it is Pending.
ActualHoursOnlyOnCompletion ==
    [][ \A id \in DOMAIN tasks \cap DOMAIN tasks' :
            (tasks[id].actualHours = Null /\ ~tasks'[id].isCompleted)
                => tasks'[id].actualHours = Null ]_vars

\* the rewards of the task are those of the given priority and domain for
\* the hours stored with it
RewardsOf(task, priority, domain) ==
    /\ task.xpReward = calculateXPReward(priority, parseFloat(task.actualHours[1])).n
    /\ task.euReward = calculateEUReward(domain, parseFloat(task.actualHours[1])).n

\* the store completed the task from the priority and the domain it had,
\* and stored those of the patch
CompletedFromExisting(existingTask, updateData, task) ==
    /\ task.isCompleted
    /\ RewardsOf(task, existingTask.priority, existingTask.domain)
    /\ "priority" \in DOMAIN updateData => task.priority = updateData.priority
    /\ "domain" \in DOMAIN updateData => task.domain = updateData.domain

\* C18: in both stores, an updateTask that takes a task from Pending to
\* Completed stores the xpReward of the priority and the euReward of the
\* domain that the task had before the update, also when the patch changes
\* priority or domain; the priority and the domain of the patch are stored.
RewardsFromExistingTask ==
    [][ \A id \in DOMAIN tasks \cap DOMAIN mem :
          (UpdateTaskCalled(id) /\ call'.arg.isCompleted) =>
             /\ ~tasks[id].isCompleted =>
                    CompletedFromExisting(tasks[id], call'.arg, tasks'[id])
             /\ ~mem[id].isCompleted =>
                    CompletedFromExisting(mem[id], call'.arg, mem'[id])
      ]_vars

\* both stores completed a task with a patch that changed its priority and
\* its domain, and the rewards are not those of the new priority and domain
CompletedWhileReprioritized ==
    /\ call.fn = "updateTask"
    /\ {"isCompleted", "priority", "domain"} \subseteq DOMAIN call.arg
    /\ call.db # Null
    /\ call.mem # Null
    /\ call.db[1].priority = call.arg.priority
    /\ call.mem[1].domain = call.arg.domain
    /\ call.db[1].xpReward > 0
    /\ ~RewardsOf(call.db[1], call.arg.priority, call.arg.domain)
    /\ ~RewardsOf(call.mem[1], call.arg.priority, call.arg.domain)

\* ------------------------------------------------------------------------
\* Properties of goals, objectives and visions
\* ------------------------------------------------------------------------
\* the owner's update was answered 200 and isCompleted is stored as asked
Toggled(tbl, id, body) ==
    /\ resp'.status = 200
    /\ id \in DOMAIN tbl
    /\ tbl[id].isCompleted = body.isCompleted

\* C17: goals, objectives and visions have no un-complete guard: an owner's
\* update with isCompleted = false on one that is completed succeeds and
\* stores false, and an update with isCompleted = true on one that is not
\* completed succeeds and stores true.
PlansToggleBothWays ==
    [][ \A u \in Users, id \in KnownIds, body \in PlanPatches :
          /\ (id \in DOMAIN goals /\ goals[id].userId = u /\ UpdateGoalReq(u, id, body))
                => Toggled(goals', id, body)
          /\ ( /\ id \in DOMAIN objectives
               /\ objectives[id].userId = u
               /\ UpdateObjectiveReq(u, id, body) )
                => Toggled(objectives', id, body)
          /\ (id \in DOMAIN visions /\ visions[id].userId = u /\ UpdateVisionReq(u, id, body))
                => Toggled(visions', id, body)
      ]_vars

\* a goal that was completed is stored not completed again
GoalUncompleted ==
    /\ req.method = "PATCH"
    /\ req.path = "goals"
    /\ resp.status = 200
    /\ req.id \in DOMAIN goals
    /\ goals[req.id].title = "done"
    /\ goals[req.id].isCompleted = FALSE

\* the values that the patch supplies are the values stored
ValuesStored(row, body, keys) ==
    \A k \in keys \cap DOMAIN body : row[k].c = body[k]

\* C21: an owner's successful update of a goal that supplies currentValue
\* or targetValue, 0 included, leaves the stored value equal to the supplied
\* one; likewise currentProgress and targetMetric of an objective.
SuppliedValuesStored ==
    [][ \A u \in Users, id \in KnownIds, body \in ValuePatches :
          /\ (id \in DOMAIN goals /\ UpdateGoalReq(u, id, body) /\ resp'.status = 200)
                => ValuesStored(goals'[id], body, {"currentValue", "targetValue"})
          /\ ( /\ id \in DOMAIN objectives
               /\ UpdateObjectiveReq(u, id, body)
               /\ resp'.status = 200 )
                => ValuesStored(objectives'[id], body, {"currentProgress", "targetMetric"})
      ]_vars

\* C26: in every state reached through create and update requests, a goal,
\* an objective or a vision that is stored with isCompleted = true has a
\* completedAt that is not null.
CompletedPlansHaveCompletedAt ==
    /\ \A id \in DOMAIN goals : goals[id].isCompleted => goals[id].completedAt # Null
    /\ \A id \in DOMAIN objectives :
          objectives[id].isCompleted => objectives[id].completedAt # Null
    /\ \A id \in DOMAIN visions : visions[id].isCompleted => visions[id].completedAt # Null

NeverUncompletedInFlight ==
    [][ \A id \in DOMAIN tasks \cap DOMAIN tasks' :
            tasks[id].isCompleted => tasks'[id].isCompleted ]_vars

\* the last write was that of a completion: its request read the task
\* Pending and computed rewards
CompletionWritten ==
    /\ call.fn = "updateTask"
    /\ call.before # Null
    /\ "xpReward" \in DOMAIN call.arg

\* C16: the write of a completion request that read the task Pending and
\* computed rewards replaces the stored xpReward, euReward, actualHours and
\* completedAt by its own whatever is stored when it runs, also when
\* another completion was written in between: the later write wins.
LaterWriteWins ==
    CompletionWritten =>
        /\ call.id \in DOMAIN tasks
        /\ \A k \in {"xpReward", "euReward", "actualHours", "completedAt"} :
              tasks[call.id][k] = call.arg[k]

\* two completion requests both read the task Pending, and the second write
\* has replaced the rewards, hours and time of the first completion
SecondCompletionOverwrote ==
    /\ CompletionWritten
    /\ call.before[1].isCompleted
    /\ tasks[call.id].xpReward # call.before[1].xpReward
    /\ tasks[call.id].euReward # call.before[1].euReward
    /\ tasks[call.id].actualHours # call.before[1].actualHours
    /\ tasks[call.id].completedAt # call.before[1].completedAt
    /\ tasks[call.id].xpReward = call.arg.xpReward

\* ------------------------------------------------------------------------
\* server/gemini.ts and the three AI routes of server/routes.ts
\* ------------------------------------------------------------------------
\* A message is the sequence of its words; String.prototype.includes is
\* asked for single words only.
Includes(message, word) == \E i \in DOMAIN message : message[i] = word

\* What a function call ends with: a returned value, or a thrown value.
\* isError tells an Error from any other thrown value.
Returns(value) == [threw |-> FALSE, isError |-> FALSE, message |-> <<>>, value |-> value]
Throws(message) == [threw |-> TRUE, isError |-> TRUE, message |-> message, value |-> Null]

\* The values of a suggestion are kept as their typeof; a field the object
\* lacks reads as undefined.
TypeOfField(object, k) == IF k \in DOMAIN object THEN object[k] ELSE "undefined"

TaskSuggestionFields ==
    [title |-> "string", description |-> "string", domain |-> "string",
     priority |-> "string", estimatedHours |-> "number", reasoning |-> "string"]

\* mutant of IsValidSuggestion: estimatedHours is not asked for
IsValidSuggestionLoose(suggestion) ==
    /\ suggestion # Null
    /\ \A k \in DOMAIN TaskSuggestionFields \ {"estimatedHours"} :
          TypeOfField(suggestion[1], k) = TaskSuggestionFields[k]

\* the filter of generateTaskSuggestions; suggestion is Null for a null
\* element of the array
IsValidSuggestion(suggestion) ==
    /\ suggestion # Null
    /\ \A k \in DOMAIN TaskSuggestionFields :
          TypeOfField(suggestion[1], k) = TaskSuggestionFields[k]

ValidSuggestions(suggestions) == SelectSeq(suggestions, IsValidSuggestion)

\* What ai.models.generateContent ends with. text is what response.text
\* reads: defined says that it is a string at all, blank that it trims to
\* "", json is what JSON.parse makes of it (Null when it throws), reply
\* is the text trimmed.
Text(defined, blank, json, reply) ==
    [defined |-> defined, blank |-> blank, json |-> json, reply |-> reply]
NoText == Text(FALSE, TRUE, Null, "")

Replied(text) == [threw |-> FALSE, isError |-> FALSE, message |-> <<>>, text |-> text]
Failed(isError, message) ==
    [threw |-> TRUE, isError |-> isError, message |-> message, text |-> NoText]

\* What JSON.parse returns: isObject is (data && typeof data === 'object'),
\* suggestions is Some(array) when data.suggestions is an array.
Json(isObject, suggestions) == [isObject |-> isObject, suggestions |-> suggestions]

GoodSuggestion == Some(TaskSuggestionFields)
Candidates ==
    { GoodSuggestion,
      Null,
      Some([title |-> "string", description |-> "string", domain |-> "string",
            priority |-> "string", estimatedHours |-> "string", reasoning |-> "string"]),
      Some([title |-> "string", description |-> "string", domain |-> "string",
            priority |-> "string", estimatedHours |-> "number"]),
      Some([title |-> "number", description |-> "string", domain |-> "string",
            priority |-> "string", estimatedHours |-> "number", reasoning |-> "string"]) }

Arrays == {<<>>} \cup {<<a>> : a \in Candidates} \cup {<<GoodSuggestion, a>> : a \in Candidates}

Texts ==
    { Text(FALSE, TRUE, Null, ""),                          \* undefined
      Text(TRUE, TRUE, Null, ""),                           \* "" or "   "
      Text(TRUE, FALSE, Null, "not json"),                  \* JSON.parse throws
      Text(TRUE, FALSE, Some(Json(FALSE, Null)), "null"),   \* null, 7, "text"
      Text(TRUE, FALSE, Some(Json(TRUE, Null)), "{}") }     \* {}, [], {"suggestions": 3}
    \cup { Text(TRUE, FALSE, Some(Json(TRUE, Some(a))), "suggestions") : a \in Arrays }

Failures ==
    { Failed(TRUE, <<"API_KEY", "not", "valid">>),
      Failed(TRUE, <<"quota", "exceeded">>),
      Failed(TRUE, <<"rate", "limited">>),
      Failed(TRUE, <<"network", "down">>),
      Failed(TRUE, <<"fetch", "failed">>),
      Failed(TRUE, <<"boom">>),
      Failed(FALSE, <<"boom">>) }

Generated == Failures \cup {Replied(t) : t \in Texts}

\* try { body } catch (error) { Catch(error) }
Try(body, Catch(_)) == IF body.threw THEN Catch(body) ELSE body

\* the inner try of generateTaskSuggestions: parse, validate, filter
ParseSuggestions(text) ==
    Try(IF text.json = Null THEN Throws(<<"Unexpected", "token">>)
        ELSE IF ~text.json[1].isObject
                THEN Throws(<<"Invalid", "response", "format", "from", "ALFRED">>)
        ELSE IF text.json[1].suggestions = Null
                THEN Throws(<<"ALFRED", "response", "missing", "suggestions", "array">>)
        ELSE Returns(ValidSuggestions(text.json[1].suggestions[1])),
        LAMBDA parseError :
            Throws(<<"ALFRED", "response", "format", "corrupted", "-", "unable", "to",
                     "parse", "mission", "recommendations">>))

\* the catch of generateTaskSuggestions throws again, whatever was thrown
SuggestionsFailure(error) ==
    IF error.isError /\ Includes(error.message, "API_KEY")
        THEN Throws(<<"ALFRED", "access", "denied:", "Invalid", "or", "missing",
                      "API", "key">>)
    ELSE IF error.isError /\ (Includes(error.message, "quota")
                                \/ Includes(error.message, "rate"))
        THEN Throws(<<"ALFRED", "overloaded:", "API", "quota", "exceeded.">>)
    ELSE IF error.isError /\ (Includes(error.message, "network")
                                \/ Includes(error.message, "fetch"))
        THEN Throws(<<"ALFRED", "communication", "failed:", "Network", "error.">>)
    ELSE Throws(<<"ALFRED", "is", "offline:">> \o error.message)

generateTaskSuggestions(key, generated) ==
    IF key = ""
        THEN Throws(<<"ALFRED", "is", "offline:", "No", "API", "key", "configured.">>)
    ELSE Try(IF generated.threw THEN generated
             ELSE IF ~generated.text.defined \/ generated.text.blank
                    THEN Throws(<<"Empty", "response", "from", "ALFRED", "-", "mission",
                                  "parameters", "unclear">>)
             ELSE ParseSuggestions(generated.text),
             SuggestionsFailure)

\* the texts the two other functions fall back to
ExplainOffline == "ALFRED is offline: No API key configured."
ExplainUnclear == "Mission parameters unclear. Unable to provide strategic analysis."
ExplainDenied == "ALFRED access denied: Invalid or missing API key."
ExplainOverloaded == "ALFRED overloaded: API quota exceeded. Please try again later."
ExplainNetwork == "ALFRED communication failed: Network error. Check your connection."
ExplainUnavailable == "ALFRED is currently offline. Strategic analysis unavailable."
ExplainFallbacks ==
    {ExplainOffline, ExplainUnclear, ExplainDenied, ExplainOverloaded, ExplainNetwork,
     ExplainUnavailable}

\* mutant of ExplainFailure: the catch lets the error through
ExplainFailureRethrown(error) == error

ExplainFailure(error) ==
    IF error.isError /\ Includes(error.message, "API_KEY") THEN Returns(ExplainDenied)
    ELSE IF error.isError /\ (Includes(error.message, "quota")
                                \/ Includes(error.message, "rate"))
        THEN Returns(ExplainOverloaded)
    ELSE IF error.isError /\ (Includes(error.message, "network")
                                \/ Includes(error.message, "fetch"))
        THEN Returns(ExplainNetwork)
    ELSE Returns(ExplainUnavailable)

explainTaskStrategy(key, generated) ==
    IF key = "" THEN Returns(ExplainOffline)
    ELSE Try(IF generated.threw THEN generated
             ELSE IF ~generated.text.defined \/ generated.text.blank
                    THEN Returns(ExplainUnclear)
             ELSE Returns(generated.text.reply),
             ExplainFailure)

ChatOffline == "I apologize, Master Wayne, but I am currently offline."
ChatRephrase == "Perhaps you could rephrase your inquiry?"
ChatDenied == "my authentication protocols are failing"
ChatOverloaded == "I am currently experiencing high demand"
ChatNetwork == "I'm having communication difficulties"
ChatDifficulties == "I am currently experiencing technical difficulties"
ChatFallbacks ==
    {ChatOffline, ChatRephrase, ChatDenied, ChatOverloaded, ChatNetwork, ChatDifficulties}

ChatFailure(error) ==
    IF error.isError /\ Includes(error.message, "API_KEY") THEN Returns(ChatDenied)
    ELSE IF error.isError /\ (Includes(error.message, "quota")
                                \/ Includes(error.message, "rate"))
        THEN Returns(ChatOverloaded)
    ELSE IF error.isError /\ (Includes(error.message, "network")
                                \/ Includes(error.message, "fetch"))
        THEN Returns(ChatNetwork)
    ELSE Returns(ChatDifficulties)

\* context is what the request body carries under that key: isArray says
\* whether length and map can be read off it without a TypeError
generateAlfredResponse(key, context, generated) ==
    IF key = "" THEN Returns(ChatOffline)
    ELSE Try(IF ~context.isArray
                THEN Throws(<<"context.map", "is", "not", "a", "function">>)
             ELSE IF generated.threw THEN generated
             ELSE IF ~generated.text.defined \/ generated.text.blank
                    THEN Returns(ChatRephrase)
             ELSE Returns(generated.text.reply),
             ChatFailure)

\* The three handlers. Each is one try around its whole body, with a catch
\* that answers 500.
AlfredOffline(error) == Returns(Response(500, "ALFRED is currently offline", Null))

Through(result, Json200(_)) == IF result.threw THEN result ELSE Returns(Json200(result.value))

SuggestionsHandler(u, result) ==
    Try(IF u = NoSession THEN Returns(Response(401, "Unauthorized", Null))
        ELSE Through(result, LAMBDA suggestions : Response(200, "", Some(suggestions))),
        AlfredOffline)

ExplainHandler(tbl, u, id, result) ==
    Try(IF u = NoSession THEN Returns(Response(401, "Unauthorized", Null))
        ELSE IF DbGetTask(tbl, id) = Null \/ DbGetTask(tbl, id)[1].userId # u
            THEN Returns(Response(404, "Task not found", Null))
        ELSE Through(result, LAMBDA explanation : Response(200, "", Some(explanation))),
        AlfredOffline)

\* body.hasBody is false when req.body is undefined, body.message is
\* Some(text) when it is a non-empty string
Bodies ==
    { [hasBody |-> FALSE, message |-> Null, context |-> [isArray |-> TRUE]],
      [hasBody |-> TRUE, message |-> Null, context |-> [isArray |-> TRUE]],
      [hasBody |-> TRUE, message |-> Some("hello"), context |-> [isArray |-> TRUE]],
      [hasBody |-> TRUE, message |-> Some("hello"), context |-> [isArray |-> FALSE]] }

ChatHandler(u, body, result) ==
    Try(IF u = NoSession THEN Returns(Response(401, "Unauthorized", Null))
        ELSE IF ~body.hasBody
            THEN Throws(<<"Cannot", "destructure", "property", "message">>)
        ELSE IF body.message = Null THEN Returns(Response(400, "Message is required", Null))
        ELSE Through(result, LAMBDA response : Response(200, "", Some(response))),
        AlfredOffline)

\* What leaves the handler: the response it sent, or the exception that
\* came out of it.
Uncaught == Response(0, "uncaught exception", Null)
Sent(handled) == IF handled.threw THEN Uncaught ELSE handled.value

\* ------------------------------------------------------------------------
\* Specification: the server with its AI routes
\* ------------------------------------------------------------------------
InitAlfred ==
    /\ tasks = <<>>
    /\ goals = <<>>
    /\ objectives = <<>>
    /\ visions = <<>>
    /\ mem = <<>>
    /\ shadow = <<>>
    /\ inflight = <<>>
    /\ apiKey \in {"", "key"}
    /\ ui = <<>>
    /\ nextId = 1
    /\ clock = 1
    /\ req = NoRequest
    /\ resp = NoResponse
    /\ call = NoCall

offAlfred ==
    <<tasks, goals, objectives, visions, mem, shadow, inflight, apiKey, ui, nextId, clock>>

Asked(fn, request, generated, result, handled) ==
    /\ req' = request
    /\ call' = [fn |-> fn, generated |-> generated, result |-> result]
    /\ resp' = Sent(handled)
    /\ UNCHANGED offAlfred

SuggestionsReq(u, generated) ==
    Asked("generateTaskSuggestions", Request("GET", "tasks/suggestions", u, 0), generated,
          generateTaskSuggestions(apiKey, generated),
          SuggestionsHandler(u, generateTaskSuggestions(apiKey, generated)))

ExplainReq(u, id, generated) ==
    Asked("explainTaskStrategy", Request("POST", "tasks/explain", u, id), generated,
          explainTaskStrategy(apiKey, generated),
          ExplainHandler(tasks, u, id, explainTaskStrategy(apiKey, generated)))

ChatReq(u, body, generated) ==
    Asked("generateAlfredResponse", Request("POST", "alfred/chat", u, 0), generated,
          generateAlfredResponse(apiKey, body.context, generated),
          ChatHandler(u, body, generateAlfredResponse(apiKey, body.context, generated)))

NextAlfred ==
    \/ \E u \in Users : RaceCreateTaskReq(u)
    \/ \E u \in Sessions, generated \in Generated : SuggestionsReq(u, generated)
    \/ \E u \in Sessions, id \in KnownIds, generated \in Generated : ExplainReq(u, id, generated)
    \/ \E u \in Sessions, body \in Bodies, generated \in Generated : ChatReq(u, body, generated)

SpecAlfred == InitAlfred /\ [][NextAlfred]_vars

\* ------------------------------------------------------------------------
\* Properties of the AI routes
\* ------------------------------------------------------------------------
AlfredRoutes == {"tasks/suggestions", "tasks/explain", "alfred/chat"}

\* the AI service failed: no key, a thrown value, no text, a blank text
ServiceFailed ==
    \/ apiKey = ""
    \/ call.generated.threw
    \/ ~call.generated.text.defined
    \/ call.generated.text.blank

\* C24: no request to one of the three AI routes ends with an exception
\* leaving its handler, whatever the AI service does (no key, a thrown
\* value, no text, a blank text, a text that is not the JSON asked for);
\* explainTaskStrategy and generateAlfredResponse never throw, and return
\* one of their fallback texts when the service failed; when
\* generateTaskSuggestions throws the request is answered 500; and what
\* generateTaskSuggestions returns holds only suggestions with the six
\* fields, each of its type.
AlfredNeverUncaught ==
    req.path \in AlfredRoutes =>
        /\ resp # Uncaught
        /\ resp.status \in {200, 400, 401, 404, 500}
        /\ call.fn = "explainTaskStrategy" =>
              /\ ~call.result.threw
              /\ ServiceFailed => call.result.value \in ExplainFallbacks
        /\ call.fn = "generateAlfredResponse" =>
              /\ ~call.result.threw
              /\ ServiceFailed => call.result.value \in ChatFallbacks
        /\ call.fn = "generateTaskSuggestions" =>
              /\ (call.result.threw /\ resp.status # 401) => resp.status = 500
              /\ ~call.result.threw =>
                    \A i \in DOMAIN call.result.value :
                        /\ call.result.value[i] # Null
                        /\ call.result.value[i][1] = TaskSuggestionFields

\* the service answered an array of a good suggestion and one whose
\* estimatedHours is a string, and the request was answered with the good
\* one alone
BadSuggestionDropped ==
    /\ call.fn = "generateTaskSuggestions"
    /\ resp.status = 200
    /\ ~call.generated.threw
    /\ call.generated.text.json # Null
    /\ call.generated.text.json[1].suggestions # Null
    /\ Len(call.generated.text.json[1].suggestions[1]) = 2
    /\ resp.row = Some(<<GoodSuggestion>>)

\* ------------------------------------------------------------------------
\* client/src/lib/auth-context.tsx: AuthProvider
\* ------------------------------------------------------------------------
\* A Supabase session carries its user; the hook keeps both.
SessionOf(name) == Some([user |-> name])
AuthSessions == {Null} \cup {SessionOf(u) : u \in Users}
UserOf(session) == IF session = Null THEN Null ELSE Some(session[1].user)

\* What supabase.auth.getSession() resolves with: { data, error }.
SessionResult(hasData, session, error) ==
    [hasData |-> hasData, session |-> session, error |-> error]
SessionResults ==
    {SessionResult(TRUE, s, FALSE) : s \in AuthSessions}
        \cup {SessionResult(TRUE, Null, TRUE), SessionResult(FALSE, Null, TRUE)}
NoResult == SessionResult(FALSE, Null, FALSE)

\* the events onAuthStateChange delivers, each with its session
AuthEvents ==
    {<<"INITIAL_SESSION", s>> : s \in AuthSessions}
        \cup {<<"SIGNED_IN", SessionOf(u)>> : u \in Users}
        \cup {<<"TOKEN_REFRESHED", SessionOf(u)>> : u \in Users}
        \cup {<<"SIGNED_OUT", Null>>}

\* The state of the provider: the three useState cells, whether the effect
\* has run, the timer of the timeout promise, the getSession promise, the
\* promise of Promise.race with the chain on it, and the session of the
\* last auth event (Null before the first, else Some(session)).
InitAuth ==
    /\ tasks = <<>>
    /\ goals = <<>>
    /\ objectives = <<>>
    /\ visions = <<>>
    /\ mem = <<>>
    /\ shadow = <<>>
    /\ inflight = <<>>
    /\ apiKey = "key"
    /\ nextId = 1
    /\ clock = 1
    /\ req = NoRequest
    /\ resp = NoResponse
    /\ call = NoCall
    /\ ui = [user |-> Null, session |-> Null, loading |-> TRUE, mounted |-> FALSE,
             timer |-> "none", getSession |-> "none", race |-> "none",
             result |-> NoResult, delivered |-> Null]

offUi ==
    <<tasks, goals, objectives, visions, mem, shadow, inflight, apiKey, nextId, clock,
      req, resp, call>>

\* setSession(session); setUser(session?.user ?? null)
SetSession(state, session) ==
    Spread(state, [session |-> session, user |-> UserOf(session)])

\* a promise settles once: Promise.race takes the first of its two
Settle(race, outcome) == IF race = "pending" THEN outcome ELSE race

\* mutant of TimeoutRejects: the timer rejects nothing
TimeoutIgnored(race) == race

\* setTimeout(() => reject(new Error(...)), sessionTimeout)
TimeoutRejects(race) == Settle(race, "rejected")

\* const { session } = data || { session: null }
ThenSession(state) == IF state.result.hasData THEN state.result.session ELSE Null

\* the effect: setLoading(true), the two promises, the race, the listener
Mount ==
    /\ ~ui.mounted
    /\ ui' = Spread(ui, [mounted |-> TRUE, loading |-> TRUE, timer |-> "armed",
                         getSession |-> "pending", race |-> "pending"])
    /\ UNCHANGED offUi

GetSessionResolves(result) ==
    /\ ui.getSession = "pending"
    /\ ui' = Spread(ui, [getSession |-> "resolved",
                         race |-> Settle(ui.race, "fulfilled"),
                         result |-> IF ui.race = "pending" THEN result ELSE ui.result])
    /\ UNCHANGED offUi

GetSessionRejects ==
    /\ ui.getSession = "pending"
    /\ ui' = Spread(ui, [getSession |-> "rejected", race |-> Settle(ui.race, "rejected")])
    /\ UNCHANGED offUi

TimeoutFires ==
    /\ ui.timer = "armed"
    /\ ui' = Spread(ui, [timer |-> "fired", race |-> TimeoutRejects(ui.race)])
    /\ UNCHANGED offUi

\* .then((result) => { ...; setSession(session); setUser(...) })
RaceThen ==
    /\ ui.race = "fulfilled"
    /\ ui' = Spread(SetSession(ui, ThenSession(ui)), [race |-> "handled"])
    /\ UNCHANGED offUi

\* .catch(() => { setSession(null); setUser(null) })
RaceCatch ==
    /\ ui.race = "rejected"
    /\ ui' = Spread(SetSession(ui, Null), [race |-> "handled"])
    /\ UNCHANGED offUi

\* .finally(() => setLoading(false))
RaceFinally ==
    /\ ui.race = "handled"
    /\ ui' = Spread(ui, [race |-> "done", loading |-> FALSE])
    /\ UNCHANGED offUi

\* the listener of onAuthStateChange. ensureProfileExists, which it awaits
\* after a SIGNED_IN, posts the profile and catches what fails: it sets
\* none of the three cells.
AuthEvent(event, session) ==
    /\ ui.mounted
    /\ ui' = Spread(SetSession(ui, session), [loading |-> FALSE, delivered |-> Some(session)])
    /\ UNCHANGED offUi

\* The provider wraps the whole application, so it stays mounted.
NextAuth ==
    \/ Mount
    \/ \E result \in SessionResults : GetSessionResolves(result)
    \/ GetSessionRejects
    \/ TimeoutFires
    \/ RaceThen
    \/ RaceCatch
    \/ RaceFinally
    \/ \E e \in AuthEvents : AuthEvent(e[1], e[2])

SpecAuth == InitAuth /\ [][NextAuth]_vars

\* The effect runs after the first render; a timer that is armed fires; the
\* reactions of a settled promise run. getSession may never settle and no
\* auth event need come.
SpecAuthLive ==
    /\ SpecAuth
    /\ WF_vars(Mount)
    /\ WF_vars(TimeoutFires)
    /\ WF_vars(RaceThen)
    /\ WF_vars(RaceCatch)
    /\ WF_vars(RaceFinally)

\* ------------------------------------------------------------------------
\* Properties of AuthProvider
\* ------------------------------------------------------------------------
\* C27: while the last auth event delivered a session, user and session
\* are set: neither the timeout nor the result of getSession takes away a
\* session that an auth event has set.
SessionKeptUntilSignedOut ==
    (ui.delivered # Null /\ ui.delivered[1] # Null) =>
        /\ ui.session # Null
        /\ ui.user # Null

\* C28: loading becomes false in every execution, whether getSession
\* resolves, rejects or never settles, and once it is false it stays false.
LoadingEnds ==
    /\ <>(ui.mounted /\ ~ui.loading)
    /\ [][~ui.loading => ~ui.loading']_vars

\* getSession has not settled, no auth event has come, the timeout has
\* fired and the chain has ended the loading
LoadingEndedByTimeout ==
    /\ ui.getSession = "pending"
    /\ ui.delivered = Null
    /\ ui.timer = "fired"
    /\ ui.race = "done"
    /\ ~ui.loading

\* ------------------------------------------------------------------------
\* client/src/lib/xp-system.ts: XPSystem and useXPSystem
\* ------------------------------------------------------------------------
\* DEFAULT_XP_CONFIG; the multipliers in tenths
baseXPPerLevel == 1000
maxLevel == 100

xpPriorityMultipliers(priority) ==
    CASE priority = "low" -> 10
      [] priority = "medium" -> 15
      [] priority = "high" -> 20
      [] priority = "urgent" -> 30
      [] OTHER -> 10

xpDomainMultipliers(domain) ==
    CASE domain = "academic" -> 10
      [] domain = "fitness" -> 12
      [] domain = "creative" -> 11
      [] domain = "social" -> 10
      [] domain = "maintenance" -> 8
      [] OTHER -> 10

RECURSIVE Power(_, _)
Power(b, n) == IF n = 0 THEN 1 ELSE b * Power(b, n - 1)

\* Math.floor(baseXPPerLevel * Math.pow(1.1, k)), which is the floor of
\* 1000 * 11^k / 10^k; the quotient is taken so that no intermediate value
\* leaves the 32 bits of the checker's integers for k up to 8
LevelStep(k) ==
    IF k <= 3 THEN (baseXPPerLevel * Power(11, k)) \div Power(10, k)
    ELSE Power(11, k) \div Power(10, k - 3)

RECURSIVE calculateXPForLevel(_)
calculateXPForLevel(level) ==
    IF level <= 1 THEN 0 ELSE calculateXPForLevel(level - 1) + LevelStep(level - 2)

RECURSIVE LevelFrom(_, _)
LevelFrom(level, totalXP) ==
    IF level < maxLevel /\ calculateXPForLevel(level + 1) <= totalXP
        THEN LevelFrom(level + 1, totalXP)
    ELSE level

calculateLevelFromXP(totalXP) == LevelFrom(1, totalXP)

calculateLevelProgress(totalXP) ==
    [currentLevelXP |-> totalXP - calculateXPForLevel(calculateLevelFromXP(totalXP)),
     xpToNextLevel |-> calculateXPForLevel(calculateLevelFromXP(totalXP) + 1) - totalXP]

\* hours are whole; actualHours is Null when the caller passes none. 50 *
\* hours * p * d with p and d in tenths is hours * p * d / 2, and
\* Math.round takes halves up.
calculateTaskXP(priority, domain, estimatedHours, actualHours) ==
    LET hours == IF actualHours # Null /\ actualHours[1] # 0 THEN actualHours[1]
                 ELSE estimatedHours
        totalXP == (hours * xpPriorityMultipliers(priority) * xpDomainMultipliers(domain) + 1)
                        \div 2
    IN  IF totalXP > 10 THEN totalXP ELSE 10

\* The state useXPSystem starts with (achievements and dates left out).
InitialProgress ==
    [totalXP |-> 7245, level |-> 12, currentLevelXP |-> 245, xpToNextLevel |-> 755,
     dailyXP |-> 325, weeklyXP |-> 1850, monthlyXP |-> 7245]

\* the updater awardTaskXP hands to setUserProgress, as the values it
\* closes over, and what it makes of the state it is applied to
Updater(newTotalXP, xpGained) == [newTotalXP |-> newTotalXP, xpGained |-> xpGained]

Applied(prev, updater) ==
    Spread(prev,
           Spread([totalXP |-> updater.newTotalXP,
                   level |-> calculateLevelFromXP(updater.newTotalXP),
                   dailyXP |-> prev.dailyXP + updater.xpGained,
                   weeklyXP |-> prev.weeklyXP + updater.xpGained,
                   monthlyXP |-> prev.monthlyXP + updater.xpGained],
                  calculateLevelProgress(updater.newTotalXP)))

RECURSIVE AppliedAll(_, _)
AppliedAll(prev, queue) ==
    IF queue = <<>> THEN prev ELSE AppliedAll(Applied(prev, Head(queue)), Tail(queue))

\* ------------------------------------------------------------------------
\* Specification: a component that uses useXPSystem
\* ------------------------------------------------------------------------
MaxAwards == 3

\* userProgress is the state React holds, rendered the userProgress of the
\* last render (the one awardTaskXP closes over), queue the updaters not
\* yet applied; awards and awarded count the calls and add up what they
\* returned.
InitXP ==
    /\ tasks = <<>>
    /\ goals = <<>>
    /\ objectives = <<>>
    /\ visions = <<>>
    /\ mem = <<>>
    /\ shadow = <<>>
    /\ inflight = <<>>
    /\ apiKey = "key"
    /\ nextId = 1
    /\ clock = 1
    /\ req = NoRequest
    /\ resp = NoResponse
    /\ call = NoCall
    /\ ui = [userProgress |-> InitialProgress, rendered |-> InitialProgress,
             queue |-> <<>>, awards |-> 0, awarded |-> 0, returned |-> 0]

AwardInputs ==
    { <<"medium", "academic", 1, Null>>,
      <<"urgent", "fitness", 2, Some(3)>>,
      <<"low", "maintenance", 1, Some(0)>>,
      <<"high", "creative", 4, Null>>,
      <<"none", "none", 0, Null>> }

\* awardTaskXP, all of its calls on the day of the last activity
AwardTaskXP(priority, domain, estimatedHours, actualHours) ==
    LET xpGained == calculateTaskXP(priority, domain, estimatedHours, actualHours)
        newTotalXP == ui.rendered.totalXP + xpGained
    IN  /\ ui.awards < MaxAwards
        /\ ui' = Spread(ui, [queue |-> Append(ui.queue, Updater(newTotalXP, xpGained)),
                             awards |-> ui.awards + 1,
                             awarded |-> ui.awarded + xpGained,
                             returned |-> xpGained])
        /\ UNCHANGED offUi

\* React applies the queued updaters in order and renders again
Render ==
    /\ ui.queue # <<>>
    /\ ui' = Spread(ui, [userProgress |-> AppliedAll(ui.userProgress, ui.queue),
                         rendered |-> AppliedAll(ui.userProgress, ui.queue),
                         queue |-> <<>>])
    /\ UNCHANGED offUi

NextXP ==
    \/ \E a \in AwardInputs : AwardTaskXP(a[1], a[2], a[3], a[4])
    \/ Render

SpecXP == InitXP /\ [][NextXP]_vars

\* ------------------------------------------------------------------------
\* Properties of useXPSystem
\* ------------------------------------------------------------------------
\* C29: once the component has rendered the awards made so far, totalXP is
\* the initial totalXP plus the sum of what the calls of awardTaskXP
\* returned, and level is calculateLevelFromXP(totalXP): no award is lost,
\* also when several calls were made between two renders.
NoAwardLost ==
    (ui.awards > 0 /\ ui.queue = <<>>) =>
        /\ ui.userProgress.totalXP = InitialProgress.totalXP + ui.awarded
        /\ ui.userProgress.level = calculateLevelFromXP(ui.userProgress.totalXP)

\* ------------------------------------------------------------------------
\* XPSystem.calculateStreak
\* ------------------------------------------------------------------------
\* A Date is a calendar day (counted from some first day) and an hour of
\* that day, in local time.
DateAt(day, hour) == [day |-> day, hour |-> hour]
\* getTime(), in hours
GetTime(date) == date.day * 24 + date.hour

\* new Date(date.getFullYear(), date.getMonth(), date.getDate())
Midnight(date) == DateAt(date.day, 0)

\* prevDate = new Date(currentDate); prevDate.setDate(prevDate.getDate() - 1)
DayBefore(date) == DateAt(date.day - 1, date.hour)

\* Array.prototype.sort with (a, b) => b.getTime() - a.getTime(): the
\* latest first, equal times in the order they came
RECURSIVE InsertedLatestFirst(_, _)
InsertedLatestFirst(sorted, date) ==
    IF sorted = <<>> THEN <<date>>
    ELSE IF GetTime(date) > GetTime(Head(sorted)) THEN <<date>> \o sorted
    ELSE <<Head(sorted)>> \o InsertedLatestFirst(Tail(sorted), date)

RECURSIVE SortedLatestFirst(_)
SortedLatestFirst(dates) ==
    IF dates = <<>> THEN <<>>
    ELSE InsertedLatestFirst(SortedLatestFirst(SubSeq(dates, 1, Len(dates) - 1)),
                             dates[Len(dates)])

\* the loop from index i on, with the streak and currentDate it has then
RECURSIVE StreakFrom(_, _, _, _)
StreakFrom(sortedDates, i, streak, currentDate) ==
    IF i > Len(sortedDates) THEN streak
    ELSE IF GetTime(sortedDates[i]) = GetTime(DayBefore(currentDate))
        THEN StreakFrom(sortedDates, i + 1, streak + 1, sortedDates[i])
    ELSE streak

StreakOfSorted(sortedDates) == StreakFrom(sortedDates, 2, 1, sortedDates[1])

calculateStreak(activityDates) ==
    IF Len(activityDates) = 0 THEN 0
    ELSE StreakOfSorted(SortedLatestFirst([i \in DOMAIN activityDates |->
                                                Midnight(activityDates[i])]))

\* ------------------------------------------------------------------------
\* Specification: calculateStreak on lists of activity dates
\* ------------------------------------------------------------------------
MaxDay == 3
MaxDates == 3

ActivityHours == {9, 17}
ActivityDates == {DateAt(d, h) : d \in 1..MaxDay, h \in ActivityHours}
ActivityLists == UNION {[1..n -> ActivityDates] : n \in 0..MaxDates}

InitStreak ==
    /\ tasks = <<>>
    /\ goals = <<>>
    /\ objectives = <<>>
    /\ visions = <<>>
    /\ mem = <<>>
    /\ shadow = <<>>
    /\ inflight = <<>>
    /\ apiKey = "key"
    /\ nextId = 1
    /\ clock = 1
    /\ req = NoRequest
    /\ resp = NoResponse
    /\ call = NoCall
    /\ ui \in {[activityDates |-> dates] : dates \in ActivityLists}

CalculateStreakCall ==
    /\ call = NoCall
    /\ call' = [fn |-> "calculateStreak", result |-> calculateStreak(ui.activityDates)]
    /\ UNCHANGED <<tasks, goals, objectives, visions, mem, shadow, inflight, apiKey, ui,
                   nextId, clock, req, resp>>

NextStreak == CalculateStreakCall

SpecStreak == InitStreak /\ [][NextStreak]_vars

\* ------------------------------------------------------------------------
\* Properties of calculateStreak
\* ------------------------------------------------------------------------
ActivityDays(dates) == {dates[i].day : i \in DOMAIN dates}
LastDay(days) == CHOOSE d \in days : \A e \in days : e <= d

\* the number of consecutive days, ending at the last of them, that are
\* all in days
ConsecutiveDays(days) ==
    LET last == LastDay(days)
        Runs == {n \in 1..Cardinality(days) : \A k \in 0..(n - 1) : (last - k) \in days}
    IN  CHOOSE n \in Runs : \A m \in Runs : m <= n

\* C30: calculateStreak returns 0 for an empty list, and otherwise the
\* number of consecutive calendar days, ending at the day of the latest
\* activity, on which an activity date falls: a number that only the set
\* of days decides, not the order of the dates nor how many fall on one
\* day.
StreakCountsDays ==
    call.fn = "calculateStreak" =>
        call.result = IF ui.activityDates = <<>> THEN 0
                      ELSE ConsecutiveDays(ActivityDays(ui.activityDates))

====
